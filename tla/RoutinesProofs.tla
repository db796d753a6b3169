--------------------------- MODULE RoutinesProofs ---------------------------
(***************************************************************************)
(* Theorems about routines of the C library and of the GUI.                *)
(***************************************************************************)
EXTENDS RoutinesInvariants, NaturalLemmas, FiniteSetTheorems, SequenceTheorems, TLAPS

-----------------------------------------------------------------------------
(***************************************************************************)
(* qsort and bsearch.                                                      *)
(***************************************************************************)
\* Values are numbers.
LEMMA ElementType ==
    ASSUME SortTypeOK
    PROVE  \A a \in 1..Len(input) : arr[a] \in Int /\ arr[a] \in Values
BY SortAssumption DEF SortTypeOK

\* The call of qsort.
LEMMA SortInitInv ==
    ASSUME SortInit \/ SortRest
    PROVE  SortInv
<1>1. CASE SortInit
  <2>1. PICK n \in 0..MaxLen : input \in [1..n -> Values]
    BY <1>1 DEF SortInit
  <2>2. n \in Nat /\ Len(input) = n
    <3>1. n \in Nat
      BY SortAssumption
    <3>2. QED
      BY <2>1, <3>1
  <2>3. Call(1, Len(input)) \in CallT /\ Call(1, 0) \in CallT
        /\ Call(1, Len(input)).lo = 1 /\ Call(1, Len(input)).n = Len(input)
    BY <2>2 DEF Call, CallT
  <2>4. calls \in Seq(CallT) /\ Len(calls) = 1 /\ calls[1] = Call(1, Len(input))
    BY <1>1, <2>3 DEF SortInit
  <2>5. Part(calls[1]) = 1..Len(input)
    BY <2>2, <2>3, <2>4 DEF Part
  <2>6. SortTypeOK
    <3>1. key \in Int
      BY <1>1, SortAssumption DEF SortInit
    <3>2. QED
      BY <1>1, <2>1, <2>2, <2>3, <2>4, <3>1 DEF SortInit, SortTypeOK
  <2>7. Rearranged
    <3> DEFINE perm == [a \in 1..Len(input) |-> a]
    <3>1. perm \in [1..Len(input) -> 1..Len(input)]
          /\ \A a \in 1..Len(input) : perm[a] = a /\ arr[a] = input[perm[a]]
      BY <1>1 DEF SortInit
    <3> HIDE DEF perm
    <3>2. QED
      BY <3>1 DEF Rearranged, Permutes
  <2>8. PartsApart /\ Ordered
    <3>1. \A i \in 1..Len(calls) : i = 1
      BY <2>4
    <3>2. 1 \in 1..Len(calls)
      BY <2>4
    <3>3. \A a, b \in 1..Len(input) : Pending(a, b)
      BY <2>5, <3>2 DEF Pending
    <3>4. sort_pc = "call"
      BY <1>1 DEF SortInit
    <3>5. QED
      BY <2>5, <3>1, <3>3, <3>4 DEF PartsApart, Ordered
  <2>9. Partitioned /\ Narrowed
    BY <1>1 DEF SortInit, Partitioned, Narrowed
  <2>10. QED
    BY <2>6, <2>7, <2>8, <2>9 DEF SortInv
<1>2. CASE SortRest
  <2>1. /\ input = <<>> /\ arr = <<>> /\ calls = <<>> /\ frame = Call(1, 0)
        /\ scan = 0 /\ store = 0 /\ key = 0 /\ left = 0 /\ right = 0 /\ found = 0
        /\ sort_pc = "done"
    BY <1>2 DEF SortRest
  <2>2. Len(input) = 0 /\ Len(calls) = 0 /\ 1..0 = {}
    BY <2>1
  <2>3. Call(1, 0) \in CallT
    BY DEF Call, CallT
  <2>4. SortTypeOK
    <3>1. <<>> \in [1..0 -> Values] /\ <<>> \in Seq(CallT)
      OBVIOUS
    <3>2. QED
      BY <2>1, <2>2, <2>3, <3>1 DEF SortTypeOK
  <2>5. Rearranged
    <3>1. <<>> \in [1..0 -> 1..0]
      OBVIOUS
    <3>2. QED
      BY <2>2, <3>1 DEF Rearranged, Permutes
  <2>6. PartsApart /\ Ordered /\ Partitioned /\ Narrowed
    BY <2>1, <2>2 DEF PartsApart, Ordered, Partitioned, Narrowed
  <2>7. QED
    BY <2>4, <2>5, <2>6 DEF SortInv
<1>3. QED
  BY <1>1, <1>2

\* A permutation with two values swapped is one.
LEMMA SwapPermutes ==
    ASSUME NEW D, NEW g, Permutes(g, D), NEW p \in D, NEW q \in D
    PROVE  Permutes(Swapped(g, p, q), D)
<1>1. PICK h \in [D -> D] :
         /\ h = Swapped(g, p, q) /\ h[p] = g[q] /\ h[q] = g[p]
         /\ \A a \in D : a # p /\ a # q => h[a] = g[a]
  <2>1. /\ Swapped(g, p, q) \in [D -> D]
        /\ Swapped(g, p, q)[p] = g[q] /\ Swapped(g, p, q)[q] = g[p]
        /\ \A a \in D : a # p /\ a # q => Swapped(g, p, q)[a] = g[a]
    BY DEF Swapped, Permutes
  <2>2. QED
    BY <2>1
<1>2. ASSUME NEW a \in D, NEW b \in D, h[a] = h[b]
      PROVE  a = b
  BY <1>1, <1>2 DEF Permutes
<1>3. ASSUME NEW b \in D
      PROVE  \E a \in D : h[a] = b
  <2>1. PICK a \in D : g[a] = b
    BY DEF Permutes
  <2>2. QED
    BY <1>1, <2>1
<1>4. QED
  BY <1>1, <1>2, <1>3 DEF Permutes

\* No swap loses an element.
LEMMA SwapRearranges ==
    ASSUME SortTypeOK, Rearranged, NEW p \in 1..Len(input), NEW q \in 1..Len(input),
           arr' = Swapped(arr, p, q), input' = input
    PROVE  Rearranged' /\ arr' \in [1..Len(input) -> Values]
<1>1. PICK g : /\ Permutes(g, 1..Len(input))
               /\ \A a \in 1..Len(input) : arr[a] = input[g[a]]
  BY DEF Rearranged
<1>2. g \in [1..Len(input) -> 1..Len(input)]
  BY <1>1 DEF Permutes
<1>3. arr \in [1..Len(input) -> Values]
  BY DEF SortTypeOK
<1>4. PICK h : /\ Permutes(h, 1..Len(input))
               /\ \A a \in 1..Len(input) : arr'[a] = input[h[a]]
  <2>1. Permutes(Swapped(g, p, q), 1..Len(input))
    BY <1>1, SwapPermutes
  <2>2. \A a \in 1..Len(input) : Swapped(arr, p, q)[a] = input[Swapped(g, p, q)[a]]
    BY <1>1, <1>2, <1>3 DEF Swapped
  <2>3. QED
    BY <2>1, <2>2, Zenon
<1>5. Rearranged'
  <2>1. \E k : /\ Permutes(k, 1..Len(input'))
               /\ \A a \in 1..Len(input') : arr'[a] = input'[k[a]]
    BY <1>4, Zenon
  <2>2. QED
    BY <2>1, Zenon DEF Rearranged
<1>6. QED
  BY <1>3, <1>5 DEF Swapped

\* A swap within the running call leaves everything outside it in order.
LEMMA SwapOrdered ==
    ASSUME SortTypeOK, PartsApart, Ordered, sort_pc = "partition",
           NEW p \in Part(frame), NEW q \in Part(frame), arr' = Swapped(arr, p, q),
           NEW a \in 1..Len(input), NEW b \in 1..Len(input), a < b
    PROVE  \/ arr'[a] =< arr'[b]
           \/ \E i \in 1..Len(calls) : {a, b} \subseteq Part(calls[i])
           \/ {a, b} \subseteq Part(frame)
<1>1. p \in 1..Len(input) /\ q \in 1..Len(input) /\ Part(frame) \subseteq 1..Len(input)
  BY DEF PartsApart
<1>2. /\ arr'[p] = arr[q] /\ arr'[q] = arr[p]
      /\ \A x \in 1..Len(input) : x # p /\ x # q => arr'[x] = arr[x]
  <2>1. arr \in [1..Len(input) -> Values]
    BY DEF SortTypeOK
  <2>2. QED
    BY <1>1, <2>1 DEF Swapped
<1>3. frame.lo \in Nat /\ frame.n \in Nat /\ Len(input) \in Nat
  BY DEF SortTypeOK, CallT
<1>4. \A x \in Part(frame) : \E y \in Part(frame) : arr'[x] = arr[y]
  BY <1>1, <1>2
<1>5. \A x \in Part(frame) : \A y \in 1..Len(input) : y \notin Part(frame) =>
         ~Pending(x, y) /\ ~Pending(y, x)
  BY DEF Pending, PartsApart
<1>6. \A y \in 1..Len(input) : y \notin Part(frame) => arr'[y] = arr[y]
  BY <1>2
<1>7. CASE a \in Part(frame) /\ b \notin Part(frame)
  <2>1. PICK y \in Part(frame) : arr'[a] = arr[y]
    BY <1>4, <1>7
  <2>2. y \in 1..Len(input) /\ y < b
    BY <1>1, <1>3, <1>7 DEF Part
  <2>3. arr[y] =< arr[b]
    BY <1>5, <1>7, <2>2 DEF Ordered
  <2>4. QED
    BY <1>6, <1>7, <2>1, <2>3
<1>8. CASE a \notin Part(frame) /\ b \in Part(frame)
  <2>1. PICK y \in Part(frame) : arr'[b] = arr[y]
    BY <1>4, <1>8
  <2>2. y \in 1..Len(input) /\ a < y
    BY <1>1, <1>3, <1>8 DEF Part
  <2>3. arr[a] =< arr[y]
    BY <1>5, <1>8, <2>2 DEF Ordered
  <2>4. QED
    BY <1>6, <1>8, <2>1, <2>3
<1>9. CASE a \notin Part(frame) /\ b \notin Part(frame)
  <2>1. arr'[a] = arr[a] /\ arr'[b] = arr[b]
    BY <1>6, <1>9
  <2>2. arr[a] =< arr[b] \/ Pending(a, b)
    BY DEF Ordered
  <2>3. QED
    BY <1>9, <2>1, <2>2 DEF Pending
<1>10. QED
  BY <1>7, <1>8, <1>9

\* The calls that are left.
LEMMA TailCalls ==
    ASSUME calls \in Seq(CallT), calls # <<>>
    PROVE  /\ Head(calls) = calls[1] /\ Head(calls) \in CallT /\ Tail(calls) \in Seq(CallT)
           /\ 1 \in 1..Len(calls) /\ Len(calls) \in Nat /\ Len(Tail(calls)) = Len(calls) - 1
           /\ \A i \in 1..(Len(calls) - 1) :
                 i + 1 \in 1..Len(calls) /\ i + 1 # 1 /\ Tail(calls)[i] = calls[i + 1]
OBVIOUS

\* The array alone decides what it is a rearrangement of.
LEMMA RearrangedKept ==
    ASSUME Rearranged, UNCHANGED <<input, arr>>
    PROVE  Rearranged'
BY Zenon DEF Rearranged

\* qsort on at most one element returns.
LEMMA ReturnStep ==
    ASSUME SortInv, Return
    PROVE  SortInv'
<1>1. /\ sort_pc = "call" /\ calls # <<>> /\ Head(calls).n =< 1 /\ calls' = Tail(calls)
      /\ UNCHANGED <<input, arr, frame, scan, store, key, left, right, found, sort_pc>>
  BY DEF Return, searching
<1>2. SortTypeOK /\ Rearranged /\ PartsApart /\ Ordered /\ calls \in Seq(CallT)
  BY DEF SortInv, SortTypeOK
<1>3. /\ Head(calls) = calls[1] /\ Head(calls) \in CallT /\ Tail(calls) \in Seq(CallT)
      /\ Len(calls) \in Nat /\ Len(Tail(calls)) = Len(calls) - 1
      /\ \A i \in 1..(Len(calls) - 1) :
            i + 1 \in 1..Len(calls) /\ i + 1 # 1 /\ Tail(calls)[i] = calls[i + 1]
  BY <1>1, <1>2, TailCalls
<1>4. SortTypeOK'
  BY <1>1, <1>2, <1>3 DEF SortTypeOK
<1>5. PartsApart'
  <2>1. \A i \in 1..Len(Tail(calls)) : Part(Tail(calls)[i]) \subseteq 1..Len(input)
    BY <1>2, <1>3 DEF PartsApart
  <2>2. ASSUME NEW i \in 1..Len(Tail(calls)), NEW j \in 1..Len(Tail(calls)), i # j
        PROVE  Part(Tail(calls)[i]) \cap Part(Tail(calls)[j]) = {}
    <3>1. i + 1 # j + 1
      BY <1>3, <2>2
    <3>2. QED
      BY <1>2, <1>3, <3>1 DEF PartsApart
  <2>3. QED
    BY <1>1, <2>1, <2>2 DEF PartsApart, Part
<1>6. Ordered'
  <2>1. ASSUME NEW a \in 1..Len(input), NEW b \in 1..Len(input), a < b, ~(arr[a] =< arr[b])
        PROVE  \E i \in 1..Len(Tail(calls)) : {a, b} \subseteq Part(Tail(calls)[i])
    <3>1. PICK i \in 1..Len(calls) : {a, b} \subseteq Part(calls[i])
      BY <1>1, <1>2, <2>1 DEF Ordered, Pending
    <3>2. i # 1
      BY <1>1, <1>3, <2>1, <3>1 DEF Part, CallT
    <3>3. i - 1 \in 1..(Len(calls) - 1) /\ (i - 1) + 1 = i
      BY <1>3, <3>2
    <3>4. QED
      BY <1>3, <3>1, <3>3
  <2>2. QED
    BY <1>1, <2>1 DEF Ordered, Pending, Part
<1>7. QED
  BY <1>1, <1>2, <1>4, <1>5, <1>6, RearrangedKept DEF SortInv, Partitioned, Narrowed

\* qsort starts to partition.
LEMMA EnterStep ==
    ASSUME SortInv, Enter
    PROVE  SortInv'
<1>1. /\ sort_pc = "call" /\ calls # <<>> /\ Head(calls).n > 1 /\ calls' = Tail(calls)
      /\ frame' = Head(calls) /\ scan' = Head(calls).lo /\ store' = Head(calls).lo
      /\ sort_pc' = "partition" /\ UNCHANGED <<input, arr, key, left, right, found>>
  BY DEF Enter, searching
<1>2. SortTypeOK /\ Rearranged /\ PartsApart /\ Ordered /\ calls \in Seq(CallT)
  BY DEF SortInv, SortTypeOK
<1>3. /\ Head(calls) = calls[1] /\ Head(calls) \in CallT /\ Tail(calls) \in Seq(CallT)
      /\ Len(calls) \in Nat /\ Len(Tail(calls)) = Len(calls) - 1 /\ 1 \in 1..Len(calls)
      /\ \A i \in 1..(Len(calls) - 1) :
            i + 1 \in 1..Len(calls) /\ i + 1 # 1 /\ Tail(calls)[i] = calls[i + 1]
  BY <1>1, <1>2, TailCalls
<1>4. Head(calls).lo \in Nat /\ Head(calls).n \in Nat
  BY <1>3 DEF CallT
<1>5. SortTypeOK'
  BY <1>1, <1>2, <1>3, <1>4 DEF SortTypeOK
<1>6. PartsApart'
  <2>1. \A i \in 1..Len(Tail(calls)) : Part(Tail(calls)[i]) \subseteq 1..Len(input)
    BY <1>2, <1>3 DEF PartsApart
  <2>2. ASSUME NEW i \in 1..Len(Tail(calls)), NEW j \in 1..Len(Tail(calls)), i # j
        PROVE  Part(Tail(calls)[i]) \cap Part(Tail(calls)[j]) = {}
    <3>1. i + 1 # j + 1
      BY <1>3, <2>2
    <3>2. QED
      BY <1>2, <1>3, <3>1 DEF PartsApart
  <2>3. Part(Head(calls)) \subseteq 1..Len(input)
    BY <1>2, <1>3 DEF PartsApart
  <2>4. \A i \in 1..Len(Tail(calls)) : Part(Tail(calls)[i]) \cap Part(Head(calls)) = {}
    BY <1>2, <1>3 DEF PartsApart
  <2>5. QED
    BY <1>1, <2>1, <2>2, <2>3, <2>4 DEF PartsApart, Part
<1>7. Ordered'
  <2>1. ASSUME NEW a \in 1..Len(input), NEW b \in 1..Len(input), a < b, ~(arr[a] =< arr[b])
        PROVE  \/ \E i \in 1..Len(Tail(calls)) : {a, b} \subseteq Part(Tail(calls)[i])
               \/ {a, b} \subseteq Part(Head(calls))
    <3>1. PICK i \in 1..Len(calls) : {a, b} \subseteq Part(calls[i])
      BY <1>1, <1>2, <2>1 DEF Ordered, Pending
    <3>2. CASE i = 1
      BY <1>3, <3>1, <3>2
    <3>3. CASE i # 1
      <4>1. i - 1 \in 1..(Len(calls) - 1) /\ (i - 1) + 1 = i
        BY <1>3, <3>3
      <4>2. QED
        BY <1>3, <3>1, <4>1, ZenonT(40)
    <3>4. QED
      BY <3>2, <3>3
  <2>2. QED
    BY <1>1, <2>1 DEF Ordered, Pending, Part
<1>8. Partitioned'
  <2>1. frame'.lo + frame'.n - 1 >= frame'.lo
    BY <1>1, <1>4
  <2>2. \A x \in Nat : ~(Head(calls).lo =< x /\ x < Head(calls).lo)
    BY <1>4
  <2>3. QED
    BY <1>1, <1>4, <2>1, <2>2 DEF Partitioned, Pivot
<1>9. QED
  BY <1>1, <1>2, <1>5, <1>6, <1>7, <1>8, RearrangedKept DEF SortInv, Narrowed

\* The bounds of the running call.
LEMMA FrameFacts ==
    ASSUME SortInv, sort_pc = "partition"
    PROVE  /\ frame.lo \in Nat \ {0} /\ frame.n \in Nat /\ frame.n > 1
           /\ scan \in Nat /\ store \in Nat /\ Pivot \in Nat /\ Pivot = frame.lo + frame.n - 1
           /\ frame.lo =< store /\ store =< scan /\ scan =< Pivot
           /\ store \in Part(frame) /\ scan \in Part(frame) /\ Pivot \in Part(frame)
           /\ Part(frame) \subseteq 1..Len(input) /\ Len(input) \in Nat
<1>1. /\ frame.lo \in Nat \ {0} /\ frame.n \in Nat /\ scan \in Nat /\ store \in Nat
      /\ Len(input) \in Nat
  BY DEF SortInv, SortTypeOK, CallT
<1>2. /\ frame.n > 1 /\ frame.lo =< store /\ store =< scan /\ scan =< Pivot
      /\ Part(frame) \subseteq 1..Len(input)
  BY DEF SortInv, Partitioned, PartsApart
<1>3. Pivot = frame.lo + frame.n - 1 /\ Pivot \in Nat
  BY <1>1, <1>2 DEF Pivot
<1>4. \A x \in Nat : x \in Part(frame) <=> frame.lo =< x /\ x < frame.lo + frame.n
  BY DEF Part
<1>5. QED
  BY <1>1, <1>2, <1>3, <1>4

\* A comparison with its swap.
LEMMA CompareStep ==
    ASSUME SortInv, Compare
    PROVE  SortInv'
<1>1. /\ sort_pc = "partition" /\ scan < Pivot /\ scan' = scan + 1
      /\ UNCHANGED <<input, calls, frame, key, left, right, found, sort_pc>>
  BY DEF Compare, searching
<1>2. SortTypeOK /\ Rearranged /\ PartsApart /\ Ordered /\ Partitioned
  BY DEF SortInv
<1>3. /\ frame.lo \in Nat \ {0} /\ scan \in Nat /\ store \in Nat /\ Pivot \in Nat
      /\ frame.n > 1 /\ frame.lo =< store /\ store =< scan
      /\ store \in Part(frame) /\ scan \in Part(frame) /\ Len(input) \in Nat
      /\ store \in 1..Len(input) /\ scan \in 1..Len(input) /\ Pivot \in 1..Len(input)
  BY <1>1, FrameFacts
<1>4. Pivot' = Pivot /\ PartsApart'
  BY <1>1, <1>2 DEF Pivot, PartsApart, Part
<1>5. \A a \in 1..Len(input) : arr[a] \in Int
  BY <1>2, ElementType
<1>6. /\ \A a \in 1..Len(input) : frame.lo =< a /\ a < store => arr[a] < arr[Pivot]
      /\ \A a \in 1..Len(input) : store =< a /\ a < scan => arr[Pivot] =< arr[a]
  BY <1>1, <1>2 DEF Partitioned
<1>7. CASE arr[scan] < arr[Pivot]
  <2>1. arr' = Swapped(arr, store, scan) /\ store' = store + 1
    BY <1>7 DEF Compare
  <2>2. Rearranged' /\ arr' \in [1..Len(input) -> Values]
    BY <1>1, <1>2, <1>3, <2>1, SwapRearranges
  <2>3. SortTypeOK'
    BY <1>1, <1>2, <1>3, <2>1, <2>2 DEF SortTypeOK
  <2>4. Ordered'
    <3>1. ASSUME NEW a \in 1..Len(input), NEW b \in 1..Len(input), a < b
          PROVE  \/ arr'[a] =< arr'[b]
                 \/ \E i \in 1..Len(calls) : {a, b} \subseteq Part(calls[i])
                 \/ {a, b} \subseteq Part(frame)
      BY <1>1, <1>2, <1>3, <2>1, <3>1, SwapOrdered
    <3>2. QED
      BY <1>1, <3>1 DEF Ordered, Pending, Part
  <2>5. /\ arr'[store] = arr[scan] /\ arr'[scan] = arr[store]
        /\ \A x \in 1..Len(input) : x # store /\ x # scan => arr'[x] = arr[x]
    <3>1. arr \in [1..Len(input) -> Values]
      BY <1>2 DEF SortTypeOK
    <3>2. QED
      BY <1>3, <2>1, <3>1 DEF Swapped
  <2>6. arr'[Pivot] = arr[Pivot]
    BY <1>1, <1>3, <2>5
  <2>7. ASSUME NEW a \in 1..Len(input), frame.lo =< a, a < store + 1
        PROVE  arr'[a] < arr[Pivot]
    <3>1. CASE a = store
      BY <1>7, <2>5, <3>1
    <3>2. CASE a # store
      BY <1>3, <1>6, <2>5, <2>7, <3>2
    <3>3. QED
      BY <3>1, <3>2
  <2>8. ASSUME NEW a \in 1..Len(input), store + 1 =< a, a < scan + 1
        PROVE  arr[Pivot] =< arr'[a]
    <3>1. CASE a = scan
      <4>1. store \in 1..Len(input) /\ store < scan
        BY <1>3, <2>8, <3>1
      <4>2. QED
        BY <1>3, <1>6, <2>5, <3>1, <4>1
    <3>2. CASE a # scan
      BY <1>3, <1>6, <2>5, <2>8, <3>2
    <3>3. QED
      BY <3>1, <3>2
  <2>9. Partitioned'
    <3>1. store + 1 =< scan + 1 /\ frame.lo =< store + 1 /\ scan + 1 =< Pivot
      BY <1>1, <1>3
    <3>2. QED
      BY <1>1, <1>3, <1>4, <2>1, <2>6, <2>7, <2>8, <3>1 DEF Partitioned
  <2>10. QED
    BY <1>1, <1>4, <2>2, <2>3, <2>4, <2>9 DEF SortInv, Narrowed
<1>8. CASE ~(arr[scan] < arr[Pivot])
  <2>1. UNCHANGED <<arr, store>>
    BY <1>8 DEF Compare
  <2>2. SortTypeOK' /\ Ordered' /\ Rearranged'
    BY <1>1, <1>2, <1>3, <2>1, RearrangedKept DEF SortTypeOK, Ordered, Pending, Part
  <2>3. ASSUME NEW a \in 1..Len(input), store =< a, a < scan + 1
        PROVE  arr[Pivot] =< arr[a]
    <3>1. CASE a = scan
      BY <1>3, <1>5, <1>8, <3>1
    <3>2. CASE a # scan
      BY <1>3, <1>6, <2>3, <3>2
    <3>3. QED
      BY <3>1, <3>2
  <2>4. Partitioned'
    <3>1. store =< scan + 1 /\ scan + 1 =< Pivot
      BY <1>1, <1>3
    <3>2. QED
      BY <1>1, <1>3, <1>4, <1>6, <2>1, <2>3, <3>1 DEF Partitioned
  <2>5. QED
    BY <1>1, <1>4, <2>2, <2>4 DEF SortInv, Narrowed
<1>9. QED
  BY <1>7, <1>8

\* Two calls in front of the others.
LEMMA PushedCalls ==
    ASSUME NEW rest \in Seq(CallT), NEW c \in CallT, NEW d \in CallT
    PROVE  LET new == <<c, d>> \o rest
           IN  /\ new \in Seq(CallT) /\ Len(rest) \in Nat /\ Len(new) = Len(rest) + 2
               /\ new[1] = c /\ new[2] = d
               /\ \A i \in 1..Len(rest) : new[i + 2] = rest[i]
OBVIOUS

\* The pivot is placed between the parts.
LEMMA PlacePivotStep ==
    ASSUME SortInv, PlacePivot
    PROVE  SortInv'
<1> DEFINE N == Len(input)
           c == Call(frame.lo, store - frame.lo)
           d == Call(store + 1, frame.n - (store - frame.lo) - 1)
<1>1. /\ sort_pc = "partition" /\ scan = Pivot /\ sort_pc' = "call"
      /\ arr' = Swapped(arr, store, Pivot) /\ calls' = <<c, d>> \o calls
      /\ UNCHANGED <<input, frame, scan, store, key, left, right, found>>
  BY DEF PlacePivot, searching
<1>2. SortTypeOK /\ Rearranged /\ PartsApart /\ Ordered /\ Partitioned
  BY DEF SortInv
<1>3. /\ frame.lo \in Nat \ {0} /\ frame.n \in Nat /\ store \in Nat /\ Pivot \in Nat
      /\ Pivot = frame.lo + frame.n - 1 /\ frame.lo =< store /\ store =< Pivot
      /\ store \in Part(frame) /\ Pivot \in Part(frame) /\ N \in Nat
      /\ Part(frame) \subseteq 1..N
  BY <1>1, FrameFacts
<1>4. c \in CallT /\ c.lo = frame.lo /\ c.n = store - frame.lo
  BY <1>3 DEF Call, CallT
<1>5. d \in CallT /\ d.lo = store + 1 /\ d.n = frame.n - (store - frame.lo) - 1
  BY <1>3 DEF Call, CallT
<1> HIDE DEF c, d
<1>6. /\ \A x \in Nat : x \in Part(frame) <=> frame.lo =< x /\ x =< Pivot
      /\ \A x \in Nat : x \in Part(c) <=> frame.lo =< x /\ x < store
      /\ \A x \in Nat : x \in Part(d) <=> store < x /\ x =< Pivot
  <2>1. \A x \in Nat : x \in Part(frame) <=> frame.lo =< x /\ x =< Pivot
    BY <1>3 DEF Part
  <2>2. \A x \in Nat : x \in Part(c) <=> frame.lo =< x /\ x < store
    BY <1>3, <1>4 DEF Part
  <2>3. d.lo + d.n = Pivot + 1
    <3>1. PICK l \in Int, n \in Int, st \in Int : l = frame.lo /\ n = frame.n /\ st = store
      BY <1>3
    <3>2. d.lo = st + 1 /\ d.n = n - (st - l) - 1 /\ Pivot = l + n - 1
      BY <1>3, <1>5, <3>1
    <3>3. QED
      BY <3>2
  <2>4. \A x \in Nat : x \in Part(d) <=> store < x /\ x =< Pivot
    BY <1>3, <1>5, <2>3 DEF Part
  <2>5. QED
    BY <2>1, <2>2, <2>4
<1>7. /\ Part(c) \subseteq Part(frame) /\ Part(d) \subseteq Part(frame)
      /\ Part(c) \cap Part(d) = {} /\ Part(c) \subseteq Nat /\ Part(d) \subseteq Nat
  <2>1. Part(c) \subseteq Nat /\ Part(d) \subseteq Nat
    BY DEF Part
  <2>2. QED
    BY <1>3, <1>6, <2>1
<1>8. PICK new \in Seq(CallT) :
         /\ calls' = new /\ Len(calls) \in Nat /\ Len(new) = Len(calls) + 2
         /\ new[1] = c /\ new[2] = d /\ \A i \in 1..Len(calls) : new[i + 2] = calls[i]
  <2>1. calls \in Seq(CallT)
    BY <1>2 DEF SortTypeOK
  <2> DEFINE list == <<c, d>> \o calls
  <2>2. /\ list \in Seq(CallT) /\ Len(calls) \in Nat /\ Len(list) = Len(calls) + 2
        /\ list[1] = c /\ list[2] = d /\ \A i \in 1..Len(calls) : list[i + 2] = calls[i]
    BY <1>4, <1>5, <2>1, PushedCalls
  <2>3. calls' = list
    BY <1>1
  <2> HIDE DEF list
  <2>4. QED
    BY <2>2, <2>3
<1>9. \A i \in 1..Len(new) : i = 1 \/ i = 2 \/ (i - 2 \in 1..Len(calls) /\ (i - 2) + 2 = i)
  BY <1>8
<1>10. \A i \in 1..Len(new) : i = 1 \/ i = 2 \/
          (i - 2 \in 1..Len(calls) /\ new[i] = calls[i - 2])
  BY <1>8, <1>9
<1>11. PartsApart'
  <2>1. /\ \A i \in 1..Len(calls) : Part(calls[i]) \subseteq 1..N
        /\ \A i, j \in 1..Len(calls) : i # j => Part(calls[i]) \cap Part(calls[j]) = {}
        /\ \A i \in 1..Len(calls) : Part(calls[i]) \cap Part(frame) = {}
    BY <1>1, <1>2 DEF PartsApart
  <2>2. \A i \in 1..Len(new) : Part(new[i]) \subseteq 1..N
    BY <1>3, <1>7, <1>8, <1>10, <2>1
  <2>3. \A i \in 1..Len(calls) :
           Part(calls[i]) \cap Part(c) = {} /\ Part(calls[i]) \cap Part(d) = {}
    BY <1>7, <2>1
  <2>4. ASSUME NEW i \in 1..Len(new), NEW j \in 1..Len(new), i # j
        PROVE  Part(new[i]) \cap Part(new[j]) = {}
    <3>1. CASE i \in {1, 2} /\ j \in {1, 2}
      BY <1>7, <1>8, <2>4, <3>1
    <3>2. CASE i \in {1, 2} /\ j \notin {1, 2}
      BY <1>8, <1>10, <2>3, <3>2
    <3>3. CASE i \notin {1, 2} /\ j \in {1, 2}
      BY <1>8, <1>10, <2>3, <3>3
    <3>4. CASE i \notin {1, 2} /\ j \notin {1, 2}
      <4>1. i - 2 # j - 2
        BY <1>8, <2>4
      <4>2. QED
        BY <1>10, <2>1, <3>4, <4>1
    <3>5. QED
      BY <3>1, <3>2, <3>3, <3>4
  <2>5. QED
    BY <1>1, <1>8, <2>2, <2>4 DEF PartsApart, Part
<1>12. Rearranged' /\ arr' \in [1..N -> Values]
  BY <1>1, <1>2, <1>3, SwapRearranges
<1>13. SortTypeOK'
  BY <1>1, <1>2, <1>8, <1>12 DEF SortTypeOK
<1>14. \A a \in 1..N : arr[a] \in Int
  BY <1>2, ElementType
<1>15. /\ arr'[store] = arr[Pivot] /\ arr'[Pivot] = arr[store]
       /\ \A x \in 1..N : x # store /\ x # Pivot => arr'[x] = arr[x]
  <2>1. arr \in [1..N -> Values] /\ store \in 1..N /\ Pivot \in 1..N
    BY <1>2, <1>3 DEF SortTypeOK
  <2>2. QED
    BY <1>1, <2>1 DEF Swapped
<1>16. /\ \A a \in 1..N : frame.lo =< a /\ a < store => arr[a] < arr[Pivot]
       /\ \A a \in 1..N : store =< a /\ a < Pivot => arr[Pivot] =< arr[a]
  BY <1>1, <1>2 DEF Partitioned
<1>17. ASSUME NEW a \in Part(frame), a =< store
       PROVE  a \in 1..N /\ arr'[a] =< arr[Pivot]
  <2>1. a \in 1..N /\ Pivot \in 1..N /\ frame.lo =< a
    BY <1>3, <1>6
  <2>2. CASE a = store
    BY <1>14, <1>15, <2>1, <2>2
  <2>3. CASE a < store
    <3>1. arr'[a] = arr[a] /\ arr[a] < arr[Pivot]
      BY <1>3, <1>15, <1>16, <2>1, <2>3
    <3>2. QED
      BY <1>14, <2>1, <3>1
  <2>4. QED
    BY <1>3, <1>17, <2>1, <2>2, <2>3
<1>18. ASSUME NEW a \in Part(frame), store =< a
       PROVE  a \in 1..N /\ arr[Pivot] =< arr'[a]
  <2>1. a \in 1..N /\ Pivot \in 1..N /\ store \in 1..N /\ a =< Pivot
    BY <1>3, <1>6
  <2>2. CASE a = store
    BY <1>14, <1>15, <2>1, <2>2
  <2>3. CASE a # store /\ a = Pivot
    <3>1. store < Pivot
      BY <1>3, <2>3
    <3>2. QED
      BY <1>15, <1>16, <2>1, <2>3, <3>1
  <2>4. CASE a # store /\ a # Pivot
    <3>1. arr'[a] = arr[a] /\ a < Pivot
      BY <1>3, <1>15, <2>1, <2>4
    <3>2. QED
      BY <1>16, <1>18, <2>1, <3>1
  <2>5. QED
    BY <2>2, <2>3, <2>4
<1>19. Ordered'
  <2>1. ASSUME NEW a \in 1..N, NEW b \in 1..N, a < b
        PROVE  arr'[a] =< arr'[b] \/ \E i \in 1..Len(new) : {a, b} \subseteq Part(new[i])
    <3>1. \/ arr'[a] =< arr'[b]
          \/ \E i \in 1..Len(calls) : {a, b} \subseteq Part(calls[i])
          \/ {a, b} \subseteq Part(frame)
      BY <1>1, <1>2, <1>3, <2>1, SwapOrdered
    <3>2. ASSUME NEW i \in 1..Len(calls), {a, b} \subseteq Part(calls[i])
          PROVE  \E j \in 1..Len(new) : {a, b} \subseteq Part(new[j])
      <4>1. i + 2 \in 1..Len(new) /\ new[i + 2] = calls[i]
        BY <1>8
      <4>2. QED
        BY <3>2, <4>1
    <3>3. CASE {a, b} \subseteq Part(frame)
      <4>1. CASE b < store
        <5>1. a \in Part(c) /\ b \in Part(c)
          BY <1>3, <1>6, <2>1, <3>3, <4>1
        <5>2. 1 \in 1..Len(new)
          BY <1>8
        <5>3. QED
          BY <1>8, <5>1, <5>2
      <4>2. CASE store < a
        <5>1. a \in Part(d) /\ b \in Part(d)
          BY <1>3, <1>6, <2>1, <3>3, <4>2
        <5>2. 2 \in 1..Len(new)
          BY <1>8
        <5>3. QED
          BY <1>8, <5>1, <5>2
      <4>3. CASE a =< store /\ store =< b
        <5>1. arr'[a] =< arr[Pivot] /\ arr[Pivot] =< arr'[b]
          BY <1>17, <1>18, <3>3, <4>3
        <5>2. arr'[a] \in Int /\ arr'[b] \in Int /\ arr[Pivot] \in Int
          BY <1>3, <1>12, <1>14, SortAssumption
        <5>3. QED
          BY <5>1, <5>2
      <4>4. QED
        BY <1>3, <4>1, <4>2, <4>3
    <3>4. QED
      BY <3>1, <3>2, <3>3
  <2>2. ASSUME NEW a \in 1..Len(input'), NEW b \in 1..Len(input'), a < b
        PROVE  arr'[a] =< arr'[b] \/ \E i \in 1..Len(calls') : {a, b} \subseteq Part(calls'[i])
    <3>1. a \in 1..N /\ b \in 1..N
      BY <1>1
    <3>2. arr'[a] =< arr'[b] \/ \E i \in 1..Len(new) : {a, b} \subseteq Part(new[i])
      BY <2>1, <2>2, <3>1
    <3>3. QED
      BY <1>8, <3>2
  <2>3. QED
    BY <2>2 DEF Ordered, Pending, Part
<1>20. QED
  BY <1>1, <1>11, <1>12, <1>13, <1>19 DEF SortInv, Partitioned, Narrowed

\* When nothing is pending the array is sorted.
LEMMA NowSorted ==
    ASSUME SortInv, calls = <<>>, sort_pc # "partition"
    PROVE  \A a, b \in 1..Len(input) : a < b => arr[a] =< arr[b]
<1>1. Len(calls) = 0
  OBVIOUS
<1>2. QED
  BY <1>1 DEF SortInv, Ordered, Pending

\* bsearch starts on the whole array.
LEMMA StartSearchStep ==
    ASSUME SortInv, StartSearch
    PROVE  SortInv'
<1>1. /\ sort_pc = "call" /\ calls = <<>> /\ left' = 0 /\ right' = Len(arr)
      /\ sort_pc' = "search"
      /\ UNCHANGED <<input, arr, calls, frame, scan, store, key, found>>
  BY DEF StartSearch, sorting
<1>2. SortTypeOK /\ Rearranged /\ PartsApart /\ Ordered
  BY DEF SortInv
<1>3. Len(arr) = Len(input) /\ Len(input) \in Nat
  BY <1>2 DEF SortTypeOK
<1>4. SortTypeOK' /\ PartsApart' /\ Ordered' /\ Partitioned'
  BY <1>1, <1>2, <1>3 DEF SortTypeOK, PartsApart, Ordered, Pending, Part, Partitioned
<1>5. Narrowed'
  BY <1>1, <1>3 DEF Narrowed
<1>6. QED
  BY <1>1, <1>2, <1>4, <1>5, RearrangedKept DEF SortInv

\* The middle lies between the bounds.
LEMMA MidFact ==
    ASSUME left \in Nat, right \in Nat, left < right
    PROVE  Mid \in Nat /\ left =< Mid /\ Mid < right
BY DEF Mid

\* One iteration of bsearch.
LEMMA SearchStep ==
    ASSUME SortInv, Search
    PROVE  SortInv'
<1>1. /\ sort_pc = "search" /\ left < right
      /\ UNCHANGED <<input, arr, calls, frame, scan, store, key>>
  BY DEF Search, sorting
<1>2. /\ SortTypeOK /\ Rearranged /\ PartsApart /\ Ordered /\ Narrowed /\ calls = <<>>
      /\ left \in Nat /\ right \in Nat /\ Len(input) \in Nat /\ key \in Int
      /\ right =< Len(input)
      /\ \A a \in 1..Len(input) : a =< left => arr[a] < key
      /\ \A a \in 1..Len(input) : right < a => key < arr[a]
  BY <1>1 DEF SortInv, SortTypeOK, Narrowed
<1>3. Mid \in Nat /\ left =< Mid /\ Mid < right
  BY <1>1, <1>2, MidFact
<1>4. PICK m \in 1..Len(input) : m = Mid + 1 /\ left < m /\ m =< right
  BY <1>2, <1>3
<1>5. \A a \in 1..Len(input) : arr[a] \in Int
  BY <1>2, ElementType
<1>6. \A a, b \in 1..Len(input) : a < b => arr[a] =< arr[b]
  BY <1>1, <1>2, NowSorted
<1>7. \/ key = arr[m] /\ found' = m /\ sort_pc' = "done" /\ UNCHANGED <<left, right>>
      \/ key < arr[m] /\ right' = Mid /\ UNCHANGED <<left, found, sort_pc>>
      \/ key > arr[m] /\ left' = m /\ UNCHANGED <<right, found, sort_pc>>
  BY <1>4 DEF Search
<1>8. SortTypeOK' /\ PartsApart' /\ Ordered' /\ Partitioned' /\ Rearranged'
  <2>1. left' \in Nat /\ right' \in Nat /\ found' \in Nat /\ sort_pc' \in {"search", "done"}
    BY <1>1, <1>2, <1>3, <1>4, <1>7 DEF SortTypeOK
  <2>2. SortTypeOK'
    BY <1>1, <1>2, <2>1 DEF SortTypeOK
  <2>3. QED
    BY <1>1, <1>2, <2>1, <2>2, RearrangedKept
       DEF PartsApart, Ordered, Pending, Part, Partitioned
<1>9. CASE key = arr[m] /\ found' = m /\ sort_pc' = "done"
  BY <1>1, <1>2, <1>4, <1>8, <1>9 DEF SortInv, Narrowed
<1>10. CASE key < arr[m] /\ right' = Mid /\ UNCHANGED <<left, found, sort_pc>>
  <2>1. ASSUME NEW a \in 1..Len(input), Mid < a
        PROVE  key < arr[a]
    <3>1. a = m \/ m < a
      BY <1>3, <1>4, <2>1
    <3>2. QED
      BY <1>2, <1>5, <1>6, <1>10, <3>1
  <2>2. Mid =< Len(input)
    BY <1>2, <1>3
  <2>3. QED
    BY <1>1, <1>2, <1>3, <1>8, <1>10, <2>1, <2>2 DEF SortInv, Narrowed
<1>11. CASE key > arr[m] /\ left' = m /\ UNCHANGED <<right, found, sort_pc>>
  <2>1. ASSUME NEW a \in 1..Len(input), a =< m
        PROVE  arr[a] < key
    <3>1. a = m \/ a < m
      BY <2>1
    <3>2. QED
      BY <1>2, <1>5, <1>6, <1>11, <3>1
  <2>2. QED
    BY <1>1, <1>2, <1>4, <1>8, <1>11, <2>1 DEF SortInv, Narrowed
<1>12. QED
  BY <1>7, <1>9, <1>10, <1>11

\* bsearch gives up.
LEMMA NotFoundStep ==
    ASSUME SortInv, NotFound
    PROVE  SortInv'
<1>1. /\ sort_pc = "search" /\ left >= right /\ found' = 0 /\ sort_pc' = "done"
      /\ UNCHANGED <<input, arr, calls, frame, scan, store, key, left, right>>
  BY DEF NotFound, sorting
<1>2. /\ SortTypeOK /\ Rearranged /\ PartsApart /\ Ordered /\ Narrowed /\ calls = <<>>
      /\ left \in Nat /\ right \in Nat /\ Len(input) \in Nat /\ key \in Int
      /\ \A a \in 1..Len(input) : a =< left => arr[a] < key
      /\ \A a \in 1..Len(input) : right < a => key < arr[a]
  BY <1>1 DEF SortInv, SortTypeOK, Narrowed
<1>3. ASSUME NEW a \in 1..Len(input)
      PROVE  arr[a] # key
  <2>1. arr[a] \in Int
    BY <1>2, ElementType
  <2>2. a =< left \/ right < a
    BY <1>1, <1>2
  <2>3. QED
    BY <1>2, <2>1, <2>2
<1>4. SortTypeOK' /\ PartsApart' /\ Ordered' /\ Partitioned' /\ Rearranged'
  BY <1>1, <1>2, RearrangedKept
     DEF SortTypeOK, PartsApart, Ordered, Pending, Part, Partitioned
<1>5. QED
  BY <1>1, <1>2, <1>3, <1>4 DEF SortInv, Narrowed

\* A rearranged array has every value as often as the input.
LEMMA SameOccurrences ==
    ASSUME SortTypeOK, Rearranged, NEW v
    PROVE  Occurrences(arr, v) = Occurrences(input, v)
<1> DEFINE D == 1..Len(input)
           S == {a \in D : arr[a] = v}
           T == {a \in D : input[a] = v}
<1>1. PICK g : Permutes(g, D) /\ \A a \in D : arr[a] = input[g[a]]
  BY DEF Rearranged
<1>2. /\ g \in [D -> D] /\ \A a, b \in D : g[a] = g[b] => a = b
      /\ \A b \in D : \E a \in D : g[a] = b
  BY <1>1 DEF Permutes
<1>3. Len(arr) = Len(input) /\ Len(input) \in Nat
  BY DEF SortTypeOK
<1> DEFINE h == [a \in S |-> g[a]]
<1>4. h \in [S -> T]
  BY <1>1, <1>2
<1>5. \A a, b \in S : h[a] = h[b] => a = b
  BY <1>2
<1>6. ASSUME NEW b \in T
      PROVE  \E a \in S : h[a] = b
  <2>1. PICK a \in D : g[a] = b
    BY <1>2
  <2>2. a \in S
    BY <1>1, <2>1
  <2>3. QED
    BY <2>1, <2>2
<1>7. IsFiniteSet(S)
  <2>1. IsFiniteSet(D)
    BY <1>3, FS_Interval
  <2>2. QED
    BY <2>1, FS_Subset
<1> HIDE DEF S, T, h
<1>8. h \in Bijection(S, T)
  BY <1>4, <1>5, <1>6 DEF Bijection, Injection, Surjection, IsInjective
<1>9. Cardinality(T) = Cardinality(S)
  BY <1>7, <1>8, FS_Bijection DEF ExistsBijection
<1>10. QED
  BY <1>3, <1>9 DEF Occurrences, S, T

\* What the invariant says about a finished call.
LEMMA SortShows ==
    ASSUME SortInv
    PROVE  SortsAndFinds
<1>1. SortTypeOK /\ Rearranged /\ Narrowed
  BY DEF SortInv
<1>2. Len(arr) = Len(input) /\ Len(input) \in Nat
  BY <1>1 DEF SortTypeOK
<1>3. ASSUME (sort_pc = "call" /\ calls = <<>>) \/ sort_pc \in {"search", "done"}
      PROVE  Sorted(arr) /\ \A v \in Values : Occurrences(arr, v) = Occurrences(input, v)
  <2>1. calls = <<>> /\ sort_pc # "partition"
    BY <1>1, <1>3 DEF Narrowed
  <2>2. Sorted(arr)
    BY <1>2, <2>1, NowSorted DEF Sorted
  <2>3. QED
    BY <1>1, <2>2, SameOccurrences
<1>4. ASSUME sort_pc = "done"
      PROVE  IF found = 0 THEN \A a \in 1..Len(arr) : arr[a] # key ELSE arr[found] = key
  BY <1>1, <1>2, <1>4 DEF Narrowed
<1>5. QED
  BY <1>3, <1>4 DEF SortsAndFinds

\* Steps of qsort and bsearch keep the invariant, and no other step touches it.
LEMMA SortStep ==
    ASSUME SortInv, SortNext \/ UNCHANGED sortVars
    PROVE  SortInv'
<1>1. CASE UNCHANGED sortVars
  <2>1. UNCHANGED <<input, arr, calls, frame, scan, store, key, left, right, found, sort_pc>>
    BY <1>1 DEF sortVars
  <2>2. SortTypeOK' /\ PartsApart' /\ Ordered' /\ Partitioned' /\ Narrowed'
    BY <2>1 DEF SortInv, SortTypeOK, PartsApart, Ordered, Pending, Part, Partitioned, Narrowed, Pivot
  <2>3. QED
    BY <2>1, <2>2, RearrangedKept DEF SortInv
<1>2. CASE SortNext
  BY <1>2, ReturnStep, EnterStep, CompareStep, PlacePivotStep, StartSearchStep, SearchStep,
     NotFoundStep DEF SortNext
<1>3. QED
  BY <1>1, <1>2

\* Every call of qsort and bsearch keeps the invariant.
LEMMA SortInvHolds == Spec => []SortInv
<1>1. Init => SortInv
  BY SortInitInv DEF Init
<1>2. SortInv /\ [Next]_vars => SortInv'
  BY SortStep DEF Next, vars
<1>3. QED
  BY <1>1, <1>2, PTL DEF Spec

(***************************************************************************)
(* qsort sorts arrays of any length, keeping every element as often as it  *)
(* occurs, and bsearch then finds the key exactly when it is there.        *)
(***************************************************************************)
THEOREM QsortSorts == Spec => []SortsAndFinds
<1>1. SortInv => SortsAndFinds
  BY SortShows
<1>2. QED
  BY <1>1, SortInvHolds, PTL

-----------------------------------------------------------------------------
(***************************************************************************)
(* memmove.                                                                *)
(***************************************************************************)
\* The call of memmove, and a program that makes none.
LEMMA MoveInitInv ==
    ASSUME StrInit \/ StrRest
    PROVE  MoveInv
<1>1. Memory \in Nat
  BY StringsAssumption
<1>2. Bytes \in [1..Memory -> Int] /\ \A n \in 1..Memory : Bytes[n] = n
  BY <1>1 DEF Bytes
<1>3. CASE MoveRest /\ str_pc \in {"strtok", "done"}
  <2>1. mem = Bytes /\ dest = 1 /\ src = 1 /\ count = 0
        /\ moving = [dest |-> 1, src |-> 1, count |-> 0]
    BY <1>3 DEF MoveRest
  <2>2. MoveTypeOK
    BY <1>2, <1>3, <2>1 DEF MoveTypeOK, Area
  <2>3. Delivered(moving.dest, moving.dest + moving.count)
    BY <1>1, <1>2, <2>1 DEF Delivered
  <2>4. QED
    BY <1>3, <2>2, <2>3 DEF MoveInv
<1>4. CASE /\ mem = Bytes
           /\ moving \in [dest : 1..Memory, src : 1..Memory, count : 0..Memory]
           /\ moving.dest + moving.count =< Memory + 1
           /\ moving.src + moving.count =< Memory + 1
           /\ dest = moving.dest /\ src = moving.src /\ count = moving.count
           /\ str_pc = "memmove"
  <2>1. moving \in Area
    BY <1>1, <1>4 DEF Area
  <2>2. moving.dest \in Nat \ {0} /\ moving.src \in Nat \ {0} /\ moving.count \in Nat
    BY <2>1 DEF Area
  <2>3. MoveTypeOK
    BY <1>2, <1>4, <2>1, <2>2 DEF MoveTypeOK
  <2>4. Delivered(moving.dest, dest) /\ Delivered(dest + count, dest + moving.count)
    BY <1>1, <1>2, <1>4, <2>2, SMTT(30) DEF Delivered
  <2>5. MoveLoop
    BY <1>4, <2>2, <2>4 DEF MoveLoop
  <2>6. QED
    BY <1>4, <2>3, <2>5 DEF MoveInv
<1>5. QED
  BY <1>3, <1>4 DEF StrInit, StrRest

\* A byte that memmove copies from the back lies in memory.
LEMMA BackBounds ==
    ASSUME NEW m \in Nat, NEW d \in Nat \ {0}, NEW c \in Nat \ {0}, NEW mc \in Nat,
           d + mc =< m + 1, c =< mc
    PROVE  d + c - 1 \in 1..m
OBVIOUS

\* A byte is read before anything is written over it.
LEMMA MoveByteStep ==
    ASSUME MoveInv, MoveByte
    PROVE  MoveInv'
<1>1. /\ Memory \in Nat /\ moving \in Area /\ mem \in [1..Memory -> Int]
      /\ dest \in Nat \ {0} /\ src \in Nat \ {0} /\ count \in Nat \ {0}
      /\ str_pc = "memmove" /\ MoveLoop
      /\ count' = count - 1 /\ moving' = moving /\ str_pc' = str_pc
  BY StringsAssumption DEF MoveInv, MoveTypeOK, MoveByte
<1>2. moving.dest \in Nat \ {0} /\ moving.src \in Nat \ {0} /\ moving.count \in Nat
  BY <1>1 DEF Area
<1>3. /\ moving.dest + moving.count =< Memory + 1 /\ moving.src + moving.count =< Memory + 1
      /\ count =< moving.count
  BY <1>1 DEF MoveLoop
<1>4. CASE Forward
  <2>1. /\ mem' = [mem EXCEPT ![dest] = mem[src]] /\ dest' = dest + 1 /\ src' = src + 1
        /\ dest + count = moving.dest + moving.count /\ src + count = moving.src + moving.count
        /\ Delivered(moving.dest, dest) /\ moving.dest < moving.src
    BY <1>1, <1>4 DEF MoveByte, MoveLoop, Forward
  <2>2. dest \in 1..Memory /\ src \in 1..Memory /\ dest < src /\ moving.dest =< dest
        /\ dest - moving.dest + moving.src = src
    <3>1. dest + count = moving.dest + moving.count /\ src + count = moving.src + moving.count
          /\ moving.dest < moving.src
      BY <2>1
    <3>2. Memory \in Nat /\ dest \in Nat \ {0} /\ src \in Nat \ {0} /\ count \in Nat \ {0}
      BY <1>1
    <3>3. QED
      BY <1>2, <1>3, <3>1, <3>2
  <2>3. mem[src] = src
    BY <1>1, <1>2, <2>1, <2>2 DEF Delivered
  <2>4. mem' \in [1..Memory -> Int]
    BY <1>1, <2>1, <2>2, <2>3
  <2>5. ASSUME NEW n \in 1..Memory
        PROVE  mem'[n] = IF moving.dest =< n /\ n < dest + 1
                         THEN n - moving.dest + moving.src ELSE n
    <3>1. CASE n = dest
      BY <1>1, <2>1, <2>2, <2>3, <3>1
    <3>2. CASE n # dest
      <4>1. mem'[n] = mem[n]
        BY <1>1, <2>1, <3>2
      <4>2. n < dest + 1 <=> n < dest
        BY <1>1, <3>2
      <4>3. QED
        BY <2>1, <4>1, <4>2 DEF Delivered
    <3>3. QED
      BY <3>1, <3>2
  <2>6. Delivered(moving.dest, dest)'
    BY <1>1, <2>1, <2>5 DEF Delivered
  <2>7. MoveLoop'
    <3>1. dest' + count' = moving.dest + moving.count /\ src' + count' = moving.src + moving.count
          /\ count' =< moving.count
      BY <1>1, <1>2, <1>3, <2>1, SMTT(30)
    <3>2. QED
      BY <1>1, <1>3, <1>4, <2>6, <3>1 DEF MoveLoop, Forward
  <2>8. MoveTypeOK'
    BY <1>1, <2>1, <2>4 DEF MoveTypeOK
  <2>9. QED
    BY <1>1, <2>7, <2>8 DEF MoveInv
<1>5. CASE ~Forward
  <2>1. /\ mem' = [mem EXCEPT ![dest + count - 1] = mem[src + count - 1]]
        /\ dest' = dest /\ src' = src /\ dest = moving.dest /\ src = moving.src
        /\ Delivered(dest + count, dest + moving.count) /\ ~(moving.dest < moving.src)
    BY <1>1, <1>5 DEF MoveByte, MoveLoop, Forward
  <2>2. PICK to1 \in 1..Memory : to1 = dest + count - 1
    <3>1. dest + count - 1 \in 1..Memory
      BY <1>1, <1>2, <1>3, <2>1, BackBounds
    <3>2. QED
      BY <3>1
  <2>3. PICK from1 \in 1..Memory : from1 = src + count - 1
    <3>1. src + count - 1 \in 1..Memory
      BY <1>1, <1>2, <1>3, <2>1, BackBounds
    <3>2. QED
      BY <3>1
  <2>4. from1 =< to1 /\ from1 < dest + count /\ to1 - moving.dest + moving.src = from1
        /\ to1 < dest + moving.count
    <3>1. dest = moving.dest /\ src = moving.src /\ ~(moving.dest < moving.src)
      BY <2>1
    <3>2. Memory \in Nat /\ dest \in Nat \ {0} /\ src \in Nat \ {0} /\ count \in Nat \ {0}
      BY <1>1
    <3>3. QED
      BY <1>2, <1>3, <2>2, <2>3, <3>1, <3>2
  <2>5. mem[from1] = from1
    <3>1. ~(dest + count =< from1)
      BY <1>1, <2>3, <2>4
    <3>2. QED
      BY <2>1, <3>1, Zenon DEF Delivered
  <2>6. mem' = [mem EXCEPT ![to1] = from1]
    BY <2>1, <2>2, <2>3, <2>5
  <2>7. mem' \in [1..Memory -> Int]
    BY <1>1, <2>6
  <2>8. ASSUME NEW n \in 1..Memory
        PROVE  mem'[n] = IF dest + (count - 1) =< n /\ n < dest + moving.count
                         THEN n - moving.dest + moving.src ELSE n
    <3>1. CASE n = to1
      BY <1>1, <2>2, <2>4, <2>6, <3>1
    <3>2. CASE n # to1
      <4>1. mem'[n] = mem[n]
        BY <1>1, <2>6, <3>2
      <4>2. dest + (count - 1) =< n <=> dest + count =< n
        BY <1>1, <2>2, <3>2
      <4>3. QED
        BY <2>1, <4>1, <4>2 DEF Delivered
    <3>3. QED
      BY <3>1, <3>2
  <2>9. Delivered(dest + count, dest + moving.count)'
    BY <1>1, <2>1, <2>8 DEF Delivered
  <2>10. MoveLoop'
    <3>1. count' =< moving.count
      BY <1>1, <1>2, <1>3
    <3>2. QED
      BY <1>1, <1>3, <1>5, <2>1, <2>9, <3>1 DEF MoveLoop, Forward
  <2>11. MoveTypeOK'
    BY <1>1, <2>1, <2>7 DEF MoveTypeOK
  <2>12. QED
    BY <1>1, <2>10, <2>11 DEF MoveInv
<1>6. QED
  BY <1>4, <1>5

\* When nothing is left everything has been delivered.
LEMMA MoveEndStep ==
    ASSUME MoveInv, MoveEnd
    PROVE  MoveInv'
<1>1. /\ moving \in Area /\ MoveLoop /\ count = 0 /\ MoveTypeOK
      /\ dest \in Nat \ {0} /\ src \in Nat \ {0}
      /\ str_pc' = "done" /\ UNCHANGED <<mem, dest, src, count, moving>>
  BY DEF MoveInv, MoveTypeOK, MoveEnd, moveVars
<1>2. moving.dest \in Nat \ {0} /\ moving.src \in Nat \ {0} /\ moving.count \in Nat
  BY <1>1 DEF Area
<1>3. Delivered(moving.dest, moving.dest + moving.count)
  <2>1. CASE Forward
    <3>1. Delivered(moving.dest, dest) /\ dest = moving.dest + moving.count
      BY <1>1, <1>2, <2>1 DEF MoveLoop
    <3>2. QED
      BY <3>1
  <2>2. CASE ~Forward
    <3>1. dest = moving.dest /\ Delivered(dest + count, dest + moving.count)
          /\ dest + count = dest
      BY <1>1, <2>2 DEF MoveLoop
    <3>2. QED
      BY <3>1
  <2>3. QED
    BY <2>1, <2>2
<1>4. QED
  BY <1>1, <1>3 DEF MoveInv, MoveTypeOK, Delivered

\* Steps of memmove keep the invariant, and no other step touches its bytes.
LEMMA MoveStep ==
    ASSUME MoveInv, StrNext \/ UNCHANGED strVars
    PROVE  MoveInv'
<1>1. CASE UNCHANGED strVars
  BY <1>1 DEF strVars, moveVars, MoveInv, MoveTypeOK, MoveLoop, Delivered, Forward
<1>2. CASE Strtok \/ StrtokEnd
  <2>1. /\ str_pc = "strtok" /\ str_pc' \in {"strtok", "done"}
        /\ UNCHANGED <<mem, dest, src, count, moving>>
    BY <1>2 DEF Strtok, StrtokEnd, moveVars
  <2>2. QED
    BY <2>1 DEF MoveInv, MoveTypeOK, Delivered
<1>3. QED
  BY <1>1, <1>2, MoveByteStep, MoveEndStep DEF StrNext

(***************************************************************************)
(* memmove delivers the bytes the source held at the call, in memory of    *)
(* any size and for every overlap of the two areas.                        *)
(***************************************************************************)
THEOREM MemmoveMoves == Spec => []MovesAll
<1>1. Init => MoveInv
  BY MoveInitInv DEF Init
<1>2. MoveInv /\ [Next]_vars => MoveInv'
  BY MoveStep DEF Next, vars
<1>3. MoveInv => MovesAll
  <2>1. SUFFICES ASSUME MoveInv, str_pc = "done", NEW n \in 1..Memory
                 PROVE  mem[n] = IF n \in moving.dest..(moving.dest + moving.count - 1)
                                 THEN n - moving.dest + moving.src ELSE n
    BY DEF MovesAll
  <2>2. moving.dest \in Nat /\ moving.count \in Nat /\ n \in Nat
    BY <2>1, StringsAssumption DEF MoveInv, MoveTypeOK, Area
  <2>3. n \in moving.dest..(moving.dest + moving.count - 1)
          <=> moving.dest =< n /\ n < moving.dest + moving.count
    BY <2>2
  <2>4. QED
    BY <2>1, <2>3 DEF MoveInv, Delivered
<1>4. QED
  BY <1>1, <1>2, <1>3, PTL DEF Spec

-----------------------------------------------------------------------------
(***************************************************************************)
(* framebuffer_draw_line.                                                  *)
(***************************************************************************)
\* The sides of the line.
LEMMA Sides ==
    ASSUME from \in Pixel, to \in Pixel
    PROVE  /\ dx \in Nat /\ -dy \in Nat /\ dy \in Int /\ Longer \in Int
           /\ dx =< Longer /\ -dy =< Longer
           /\ sx \in {-1, 1} /\ sy \in {-1, 1}
           /\ to.x - from.x \in Int /\ to.y - from.y \in Int
           /\ to.x - from.x = IF sx = 1 THEN dx ELSE -dx
           /\ to.y - from.y = IF sy = 1 THEN -dy ELSE dy
BY DEF Pixel, dx, dy, sx, sy, Abs, Longer

\* The point where a call begins is on the line.
LEMMA LineInitInv ==
    ASSUME LineInit \/ LineRest
    PROVE  LineInv
<1>1. from \in Pixel /\ to \in Pixel
  <2>1. CASE LineInit
    <3>1. Coordinates \subseteq Int
      BY LineAssumption DEF Coordinates
    <3>2. QED
      BY <2>1, <3>1 DEF LineInit, Point, Pixel
  <2>2. CASE LineRest
    <3>1. [x |-> 0, y |-> 0] \in Pixel
      BY DEF Pixel
    <3>2. QED
      BY <2>2, <3>1 DEF LineRest
  <2>3. QED
    BY <2>1, <2>2
<1>2. pen = from /\ err = dx + dy /\ lit = {} /\ buffer = {}
  <2>1. CASE LineRest
    <3>1. from = to /\ from.x \in Int /\ from.y \in Int /\ err = 0
      BY <1>1, <2>1 DEF LineRest, Pixel
    <3>2. dx = 0 /\ dy = 0
      BY <3>1 DEF dx, dy, Abs
    <3>3. QED
      BY <2>1, <3>1, <3>2 DEF LineRest
  <2>2. QED
    BY <2>1 DEF LineInit
<1>3. /\ dx \in Nat /\ -dy \in Nat /\ dy \in Int /\ Longer \in Int /\ dx =< Longer
      /\ to.x - from.x \in Int /\ to.y - from.y \in Int
  BY <1>1, Sides
<1>4. Deviation = 0
  BY <1>2, <1>3 DEF Deviation
<1>5. Offset(pen) = 0
  <2>1. pen.x - from.x = 0 /\ pen.y - from.y = 0
    BY <1>1, <1>2 DEF Pixel
  <2>2. QED
    BY <1>3, <2>1 DEF Offset
<1>6. OnCourse
  <2>1. PICK L \in Int : L = Longer /\ 0 =< L
    BY <1>3
  <2>2. PICK u \in Int : u = Deviation /\ u =< 0 /\ 0 =< u
    BY <1>4
  <2>3. 2 * u =< L /\ -L =< 2 * u
    BY <2>1, <2>2
  <2>4. Offset(pen) = u /\ u = -u
    BY <1>5, <2>2
  <2>5. QED
    BY <2>1, <2>2, <2>3, <2>4 DEF OnCourse
<1>7. LineTypeOK
  BY <1>1, <1>2, <1>3 DEF LineTypeOK
<1>8. LineDrawn
  BY <1>2 DEF LineDrawn
<1>9. QED
  BY <1>6, <1>7, <1>8 DEF LineInv

\* What draw_pixel lights is where the pen was, and is written if it is inside.
LEMMA PixelDrawn ==
    ASSUME LineInv, DrawPixel(pen), UNCHANGED <<from, to>>
    PROVE  LineDrawn' /\ lit' \subseteq Pixel
<1> DEFINE inside(S) == {q \in S : q.x \in 0..(Width - 1) /\ q.y \in 0..(Height - 1)}
           index(p) == p.y * Width + p.x
<1>1. /\ from \in Pixel /\ to \in Pixel /\ pen \in Pixel /\ err \in Int /\ lit \subseteq Pixel
      /\ OnCourse /\ LineDrawn
      /\ Width \in Nat /\ Height \in Nat /\ lit' = lit \cup {pen}
  BY LineAssumption DEF LineInv, LineTypeOK, DrawPixel
<1>2. Longer' = Longer /\ \A p : Offset(p)' = Offset(p)
  BY DEF Longer, dx, dy, Abs, Offset
<1>3. 2 * Abs(Offset(pen)) =< Longer
  <2>1. dx \in Int /\ dy \in Int /\ Longer \in Int
    BY <1>1, Sides
  <2>2. Deviation \in Int
    BY <1>1, <2>1 DEF Deviation
  <2>3. Offset(pen) \in Int /\ (Offset(pen) = Deviation \/ Offset(pen) = -Deviation)
    BY <1>1, <2>2 DEF OnCourse
  <2>4. QED
    BY <1>1, <2>1, <2>2, <2>3 DEF OnCourse, Abs
<1>4. \A p \in lit' : 2 * Abs(Offset(p)) =< Longer
  BY <1>1, <1>3 DEF LineDrawn, Offset
<1>5. Visible(pen) <=> pen.x \in 0..(Width - 1) /\ pen.y \in 0..(Height - 1)
  BY <1>1 DEF Visible, Pixel
<1>6. buffer = {index(p) : p \in inside(lit)}
  BY <1>1 DEF LineDrawn
<1>7. buffer' = {index(p) : p \in inside(lit')}
  <2>1. CASE Visible(pen)
    <3>1. buffer' = buffer \cup {index(pen)} /\ inside(lit') = inside(lit) \cup {pen}
      BY <1>1, <1>5, <2>1 DEF DrawPixel
    <3>2. QED
      BY <1>6, <3>1
  <2>2. CASE ~Visible(pen)
    <3>1. buffer' = buffer /\ inside(lit') = inside(lit)
      BY <1>1, <1>5, <2>2 DEF DrawPixel
    <3>2. QED
      BY <1>6, <3>1
  <2>3. QED
    BY <2>1, <2>2
<1>8. \A p \in lit' : 2 * Abs(Offset(p)') =< Longer'
  BY <1>2, <1>4
<1>9. QED
  BY <1>1, <1>7, <1>8 DEF LineDrawn, Offset, Abs

\* The offset of a point next to p.
LEMMA Neighbour ==
    ASSUME NEW a \in Int, NEW b \in Int, NEW X \in Int, NEW Y \in Int,
           NEW s \in {-1, 0, 1}, NEW t \in {-1, 0, 1}
    PROVE  (a + s) * Y - (b + t) * X = (a * Y - b * X)
              + (IF s = 1 THEN Y ELSE IF s = -1 THEN -Y ELSE 0)
              - (IF t = 1 THEN X ELSE IF t = -1 THEN -X ELSE 0)
<1>1. PICK p \in Int : p = a * Y
  OBVIOUS
<1>2. PICK q \in Int : q = b * X
  OBVIOUS
<1>3. (a + s) * Y = p + (IF s = 1 THEN Y ELSE IF s = -1 THEN -Y ELSE 0)
  BY <1>1, OneMore
<1>4. (b + t) * X = q + (IF t = 1 THEN X ELSE IF t = -1 THEN -X ELSE 0)
  BY <1>2, OneMore
<1>5. QED
  BY <1>1, <1>2, <1>3, <1>4

\* A step of the loop keeps err the offset of the pen, and within its bounds.
LEMMA AdvanceOnCourse ==
    ASSUME LineInv, Advance, UNCHANGED <<from, to>>
    PROVE  OnCourse' /\ pen' \in Pixel /\ err' \in Int
<1>1. from \in Pixel /\ to \in Pixel /\ pen \in Pixel /\ err \in Int /\ OnCourse
  BY DEF LineInv, LineTypeOK
<1>2. /\ dx \in Nat /\ -dy \in Nat /\ dy \in Int /\ Longer \in Int
      /\ dx =< Longer /\ -dy =< Longer
      /\ sx \in {-1, 1} /\ sy \in {-1, 1}
      /\ to.x - from.x \in Int /\ to.y - from.y \in Int
      /\ to.x - from.x = IF sx = 1 THEN dx ELSE -dx
      /\ to.y - from.y = IF sy = 1 THEN -dy ELSE dy
  BY <1>1, Sides
<1>3. dx' = dx /\ dy' = dy /\ sx' = sx /\ sy' = sy /\ Longer' = Longer
  BY DEF Longer, dx, dy, sx, sy, Abs
<1>4. PICK X \in Int : X = to.x - from.x
  BY <1>2
<1>5. PICK Y \in Int : Y = to.y - from.y
  BY <1>2
<1>6. PICK a \in Int : a = pen.x - from.x
  BY <1>1 DEF Pixel
<1>7. PICK b \in Int : b = pen.y - from.y
  BY <1>1 DEF Pixel
<1>8. PICK s \in {-1, 0, 1} : s = IF 2 * err >= dy THEN sx ELSE 0
  BY <1>2
<1>9. PICK t \in {-1, 0, 1} : t = IF 2 * err =< dx THEN sy ELSE 0
  BY <1>2
<1>10. /\ pen' = [x |-> pen.x + s, y |-> pen.y + t]
       /\ err' = err + (IF 2 * err >= dy THEN dy ELSE 0) + (IF 2 * err =< dx THEN dx ELSE 0)
  <2>1. pen.x + 0 = pen.x /\ pen.y + 0 = pen.y
    BY <1>1 DEF Pixel
  <2>2. QED
    BY <1>8, <1>9, <2>1 DEF Advance
<1>11. pen' \in Pixel /\ err' \in Int
  <2>1. pen.x + s \in Int /\ pen.y + t \in Int
    BY <1>1, <1>8, <1>9 DEF Pixel
  <2>2. QED
    BY <1>1, <1>2, <1>10, <2>1 DEF Pixel
<1>12. pen'.x - from.x = a + s /\ pen'.y - from.y = b + t
  <2>1. pen'.x = pen.x + s /\ pen'.y = pen.y + t
    BY <1>10
  <2>2. pen.x \in Int /\ pen.y \in Int /\ from.x \in Int /\ from.y \in Int
    BY <1>1 DEF Pixel
  <2>3. QED
    BY <1>6, <1>7, <2>1, <2>2
<1>13. PICK c \in Int : c = Offset(pen)
  <2>1. Offset(pen) \in Int
    BY <1>4, <1>5, <1>6, <1>7 DEF Offset
  <2>2. QED
    BY <2>1
<1>14. PICK c1 \in Int : /\ c1 = Offset(pen)'
                         /\ c1 = c + (IF s = 1 THEN Y ELSE IF s = -1 THEN -Y ELSE 0)
                                  - (IF t = 1 THEN X ELSE IF t = -1 THEN -X ELSE 0)
  <2>1. Offset(pen)' = (a + s) * Y - (b + t) * X
    BY <1>4, <1>5, <1>12 DEF Offset
  <2>2. c = a * Y - b * X
    BY <1>4, <1>5, <1>6, <1>7, <1>13 DEF Offset
  <2>3. Offset(pen)' = c + (IF s = 1 THEN Y ELSE IF s = -1 THEN -Y ELSE 0)
                         - (IF t = 1 THEN X ELSE IF t = -1 THEN -X ELSE 0)
    BY <2>1, <2>2, Neighbour
  <2>4. Offset(pen)' \in Int
    BY <2>3
  <2>5. QED
    BY <2>3, <2>4
<1>15. PICK D \in Nat : D = dx
  BY <1>2
<1>16. PICK E \in Nat : dy = -E
  <2>1. -dy \in Nat /\ dy = -(-dy)
    BY <1>2
  <2>2. QED
    BY <2>1
<1>17. PICK L \in Int : L = Longer /\ D =< L /\ E =< L
  BY <1>2, <1>15, <1>16
<1>18. PICK u \in Int : u = Deviation
  BY <1>1, <1>2 DEF Deviation
<1>19. PICK u1 \in Int : u1 = Deviation'
  <2>1. Deviation' = err' - dx - dy
    BY <1>3 DEF Deviation
  <2>2. Deviation' \in Int
    BY <1>2, <1>11, <2>1
  <2>3. QED
    BY <2>2
<1>20. err = u + D - E
  BY <1>1, <1>15, <1>16, <1>18 DEF Deviation
<1>21. u1 = u + (IF 2 * err >= -E THEN -E ELSE 0) + (IF 2 * err =< D THEN D ELSE 0)
  BY <1>1, <1>3, <1>10, <1>15, <1>16, <1>18, <1>19 DEF Deviation
<1>22. 2 * u =< L /\ -L =< 2 * u /\ c = IF sx = sy THEN -u ELSE u
  BY <1>1, <1>13, <1>17, <1>18 DEF OnCourse
<1>23. 2 * u1 =< L /\ -L =< 2 * u1
  BY <1>17, <1>20, <1>21, <1>22
<1>24. c1 = IF sx = sy THEN -u1 ELSE u1
  <2>1. X = (IF sx = 1 THEN D ELSE -D) /\ Y = (IF sy = 1 THEN E ELSE -E)
    BY <1>2, <1>4, <1>5, <1>15, <1>16
  <2>2. s = (IF 2 * err >= -E THEN sx ELSE 0) /\ t = (IF 2 * err =< D THEN sy ELSE 0)
    BY <1>8, <1>9, <1>15, <1>16
  <2>3. CASE sx = 1 /\ sy = 1
    BY <1>14, <1>21, <1>22, <2>1, <2>2, <2>3
  <2>4. CASE sx = 1 /\ sy = -1
    BY <1>14, <1>21, <1>22, <2>1, <2>2, <2>4
  <2>5. CASE sx = -1 /\ sy = 1
    BY <1>14, <1>21, <1>22, <2>1, <2>2, <2>5
  <2>6. CASE sx = -1 /\ sy = -1
    BY <1>14, <1>21, <1>22, <2>1, <2>2, <2>6
  <2>7. QED
    BY <1>2, <2>3, <2>4, <2>5, <2>6
<1>25. OnCourse'
  BY <1>3, <1>14, <1>17, <1>19, <1>23, <1>24 DEF OnCourse
<1>26. QED
  BY <1>11, <1>25

\* Steps of the loop keep the invariant, and no other step touches the line.
LEMMA LineNextStep ==
    ASSUME LineInv, LineNext \/ UNCHANGED lineVars
    PROVE  LineInv'
<1>1. CASE LineStep
  <2>1. DrawPixel(pen) /\ Advance /\ UNCHANGED <<from, to>>
    BY <1>1 DEF LineStep
  <2>2. LineDrawn' /\ lit' \subseteq Pixel /\ OnCourse' /\ pen' \in Pixel /\ err' \in Int
    BY <2>1, PixelDrawn, AdvanceOnCourse
  <2>3. QED
    BY <2>1, <2>2 DEF LineInv, LineTypeOK
<1>2. CASE LineStop
  <2>1. DrawPixel(pen) /\ UNCHANGED <<from, to, pen, err>>
    BY <1>2 DEF LineStop
  <2>2. LineDrawn' /\ lit' \subseteq Pixel
    BY <2>1, PixelDrawn
  <2>3. OnCourse'
    BY <2>1 DEF LineInv, OnCourse, Offset, Deviation, Longer, dx, dy, sx, sy, Abs
  <2>4. QED
    BY <2>1, <2>2, <2>3 DEF LineInv, LineTypeOK
<1>3. CASE UNCHANGED lineVars
  BY <1>3 DEF lineVars, LineInv, LineTypeOK, OnCourse, LineDrawn, Offset, Deviation,
              Longer, dx, dy, sx, sy, Abs
<1>4. QED
  BY <1>1, <1>2, <1>3 DEF LineNext

(***************************************************************************)
(* framebuffer_draw_line draws every line within half a pixel, in every    *)
(* direction and for a framebuffer of any size, and clips what lies        *)
(* outside the framebuffer.                                                *)
(***************************************************************************)
THEOREM LinesAreDrawn == Spec => []LineDrawn
<1>1. Init => LineInv
  BY LineInitInv DEF Init
<1>2. LineInv /\ [Next]_vars => LineInv'
  BY LineNextStep DEF Next, vars
<1>3. LineInv => LineDrawn
  BY DEF LineInv
<1>4. QED
  BY <1>1, <1>2, <1>3, PTL DEF Spec

-----------------------------------------------------------------------------
(***************************************************************************)
(* vsnprintf and console_vprintf.                                          *)
(***************************************************************************)
\* Subtraction in size_t.
LEMMA RoomFact ==
    ASSUME size \in Nat, size < SizeMod
    PROVE  Room \in Nat /\ Room = IF size > 0 THEN size - 1 ELSE SizeMod - 1
<1>1. SizeMod \in Nat /\ SizeMod > 1
  BY PrintfAssumption
<1>2. CASE size > 0
  <2>1. PICK k \in Nat : k = size - 1 /\ k < SizeMod
    BY <1>1, <1>2
  <2>2. size + SizeMod - 1 = k + SizeMod
    BY <1>1, <2>1
  <2>3. (k + SizeMod) % SizeMod = k
    BY <1>1, <2>1
  <2>4. QED
    BY <1>2, <2>1, <2>2, <2>3 DEF Room
<1>3. CASE ~(size > 0)
  <2>1. PICK k \in Nat : k = SizeMod - 1 /\ k < SizeMod
    BY <1>1
  <2>2. size + SizeMod - 1 = k
    BY <1>1, <1>3, <2>1
  <2>3. k % SizeMod = k
    BY <1>1, <2>1
  <2>4. QED
    BY <1>3, <2>1, <2>2, <2>3 DEF Room
<1>4. QED
  BY <1>2, <1>3

\* What Prefix yields.
LEMMA PrefixFact ==
    ASSUME NEW S, NEW s \in Seq(S), NEW n \in Nat
    PROVE  /\ Prefix(s, n) \in Seq(S)
           /\ Len(Prefix(s, n)) = IF Len(s) < n THEN Len(s) ELSE n
           /\ Len(s) =< n => Prefix(s, n) = s
<1>1. Len(s) \in Nat
  OBVIOUS
<1>2. SubSeq(s, 1, Len(s)) = s /\ SubSeq(s, 1, Len(s)) \in Seq(S)
  BY SubSeqFull
<1>3. CASE Len(s) < n
  BY <1>1, <1>2, <1>3 DEF Prefix
<1>4. CASE ~(Len(s) < n)
  <2>1. Prefix(s, n) = SubSeq(s, 1, n)
    BY <1>4 DEF Prefix
  <2>2. SubSeq(s, 1, n) \in Seq(S) /\ Len(SubSeq(s, 1, n)) = n
    BY <1>1, <1>4
  <2>3. Len(s) =< n => n = Len(s)
    BY <1>1, <1>4
  <2>4. QED
    BY <1>2, <1>4, <2>1, <2>2, <2>3
<1>5. QED
  BY <1>3, <1>4

\* The start of a call, and a program that makes none.
LEMMA FmtInitInv ==
    ASSUME FmtInit \/ FmtRest
    PROVE  FmtInv
<1>1. /\ SizeMod \in Nat /\ MaxSize \in Nat /\ MaxFormat \in Nat
      /\ SizeMod > 1 /\ MaxSize < SizeMod
  BY PrintfAssumption
<1>2. /\ out = full /\ out \in Seq(Letters) /\ Len(out) = 0 /\ at = 1
      /\ writer \in {"libc", "console"} /\ fmt_pc \in {"loop", "done"}
  <2>1. <<>> \in Seq(Letters) /\ Len(<<>>) = 0
    OBVIOUS
  <2>2. out = <<>> /\ full = <<>> /\ at = 1 /\ writer \in {"libc", "console"}
        /\ fmt_pc \in {"loop", "done"}
    BY DEF FmtInit, FmtRest
  <2>3. QED
    BY <2>1, <2>2
<1>3. Len(format) \in Nat /\ format \in [1..Len(format) -> {"%", "v", "c", "o", "l"}]
  <2>1. CASE FmtInit
    <3>1. PICK n \in 0..MaxFormat : format \in [1..n -> {"%", "v", "c", "o", "l"}]
      BY <2>1 DEF FmtInit
    <3>2. n \in Nat
      BY <1>1
    <3>3. QED
      BY <3>1, <3>2
  <2>2. CASE FmtRest
    <3>1. format = <<>> /\ 1..0 = {}
      BY <2>2 DEF FmtRest
    <3>2. <<>> \in [1..0 -> {"%", "v", "c", "o", "l"}] /\ Len(<<>>) = 0
      OBVIOUS
    <3>3. QED
      BY <3>1, <3>2
  <2>3. QED
    BY <2>1, <2>2
<1>4. size \in Nat /\ size < SizeMod
  BY <1>1 DEF FmtInit, FmtRest
<1>5. IF writer = "console" THEN size = 0 ELSE \A n \in 1..Len(format) : format[n] # "l"
  <2>1. CASE FmtInit
    BY <1>3, <2>1 DEF FmtInit
  <2>2. CASE FmtRest
    <3>1. Len(format) = 0 /\ writer # "console"
      BY <2>2 DEF FmtRest
    <3>2. QED
      BY <3>1
  <2>3. QED
    BY <2>1, <2>2
<1>6. FmtTypeOK
  BY <1>2, <1>3, <1>4, <1>5 DEF FmtTypeOK
<1>7. Bounded
  <2>1. Room \in Nat
    BY <1>4, RoomFact
  <2>2. Len(full) =< Room /\ full \in Seq(Letters)
    BY <1>2, <2>1
  <2>3. Prefix(full, Room) = full
    BY <2>1, <2>2, PrefixFact, Zenon
  <2>4. ~(Len(out) > Room)
    BY <1>2, <2>1
  <2>5. QED
    BY <1>2, <2>3, <2>4 DEF Bounded
<1>8. InFormat
  BY <1>2, <1>3 DEF InFormat
<1>9. CutWhenFull
  <2>1. CASE FmtInit
    BY <2>1 DEF FmtInit, CutWhenFull
  <2>2. CASE FmtRest
    <3>1. size = 1 /\ Len(full) = 0 /\ writer = "libc"
      BY <1>2, <2>2 DEF FmtRest
    <3>2. Room = 0
      BY <1>4, <3>1, RoomFact
    <3>3. QED
      BY <3>1, <3>2 DEF CutWhenFull
  <2>3. QED
    BY <2>1, <2>2
<1>10. QED
  BY <1>6, <1>7, <1>8, <1>9 DEF FmtInv

\* Every conversion adds the same to the buffer as to an endless one, cut off
\* where the buffer ends.
LEMMA AddedText ==
    ASSUME FmtInv, Looping, NEW t \in Seq(Letters), full' = full \o t,
           UNCHANGED <<writer, format, size, fmt_pc>>,
           \/ out' = out \o t /\ (writer = "libc" => Len(t) =< 1 \/ (Len(t) = 2 /\ JustUnknown'))
           \/ writer = "libc" /\ out' = Prefix(out \o t, Room)
    PROVE  /\ out' \in Seq(Letters) /\ full' \in Seq(Letters)
           /\ Bounded' /\ CutWhenFull'
<1>1. /\ out \in Seq(Letters) /\ full \in Seq(Letters) /\ size \in Nat /\ size < SizeMod
      /\ Len(out) \in Nat /\ Len(full) \in Nat /\ Len(t) \in Nat
  BY DEF FmtInv, FmtTypeOK
<1>2. full' \in Seq(Letters) /\ Len(full') = Len(full) + Len(t)
  BY <1>1
<1>3. Room \in Nat /\ Room' = Room
  BY <1>1, RoomFact DEF Room
<1>4. out' \in Seq(Letters)
  <2>1. out \o t \in Seq(Letters)
    BY <1>1
  <2>2. Prefix(out \o t, Room) \in Seq(Letters)
    BY <1>3, <2>1, PrefixFact
  <2>3. QED
    BY <2>1, <2>2
<1>5. CutWhenFull'
  BY DEF CutWhenFull, Looping
<1>6. ASSUME writer = "libc"
      PROVE  /\ Len(out') < Room => out' = full'
             /\ Len(out') =< Room => out' = Prefix(full', Room)
             /\ Len(out') > Room => Len(out') = Room + 1 /\ out' = full' /\ JustUnknown'
  <2>2. Len(out) < Room /\ out = full
    BY <1>6 DEF Looping, Fits, FmtInv, Bounded
  <2>3. Len(out \o t) = Len(out) + Len(t) /\ full' = out \o t
    BY <1>1, <2>2
  <2>4. /\ Len(Prefix(full', Room)) = IF Len(full') < Room THEN Len(full') ELSE Room
        /\ Len(full') =< Room => Prefix(full', Room) = full'
    <3>1. PICK f \in Seq(Letters) : f = full'
      BY <1>2
    <3>2. PICK n \in Nat : n = Room
      BY <1>3
    <3>3. /\ Len(Prefix(f, n)) = IF Len(f) < n THEN Len(f) ELSE n
          /\ Len(f) =< n => Prefix(f, n) = f
      BY PrefixFact
    <3>4. QED
      BY <3>1, <3>2, <3>3
  <2>5. CASE out' = Prefix(out \o t, Room)
    <3>1. out' = Prefix(full', Room)
      BY <2>3, <2>5
    <3>2. QED
      BY <1>2, <1>3, <2>4, <3>1
  <2>6. CASE out' = out \o t /\ (Len(t) =< 1 \/ (Len(t) = 2 /\ JustUnknown'))
    <3>1. out' = full' /\ Len(out') = Len(out) + Len(t)
      BY <2>3, <2>6
    <3>2. Len(out') > Room => Len(out') = Room + 1 /\ JustUnknown'
      <4>1. Len(t) =< 1 => ~(Len(out') > Room)
        BY <1>1, <1>3, <2>2, <3>1
      <4>2. Len(t) = 2 /\ Len(out') > Room => Len(out') = Room + 1
        BY <1>1, <1>3, <2>2, <3>1
      <4>3. QED
        BY <2>6, <4>1, <4>2
    <3>3. QED
      BY <1>2, <1>3, <2>4, <3>1, <3>2
  <2>7. QED
    BY <1>6, <2>5, <2>6
<1>7. Bounded'
  <2>1. CASE writer = "libc"
    BY <1>3, <1>6, <2>1 DEF Bounded
  <2>2. CASE writer # "libc"
    BY <2>2 DEF Bounded, FmtInv
  <2>3. QED
    BY <2>1, <2>2
<1>8. QED
  BY <1>2, <1>4, <1>5, <1>7

\* One more iteration.
LEMMA FmtItem ==
    ASSUME FmtInv, Looping, NEW t \in Seq(Letters), full' = full \o t,
           UNCHANGED <<writer, format, size, fmt_pc>>,
           \/ out' = out \o t /\ (writer = "libc" => Len(t) =< 1 \/ (Len(t) = 2 /\ JustUnknown'))
           \/ writer = "libc" /\ out' = Prefix(out \o t, Room),
           at' \in Nat \ {0}, InFormat'
    PROVE  FmtInv'
<1>1. out' \in Seq(Letters) /\ full' \in Seq(Letters) /\ Bounded' /\ CutWhenFull'
  BY AddedText
<1>2. FmtTypeOK'
  BY <1>1 DEF FmtInv, FmtTypeOK
<1>3. QED
  BY <1>1, <1>2 DEF FmtInv

\* A conversion to text.
LEMMA ConvertTextStep ==
    ASSUME FmtInv, NEW t \in Texts, ConvertText(t)
    PROVE  FmtInv'
<1>1. /\ Looping /\ at < Len(format) /\ at' = at + 2 /\ full' = full \o t
      /\ UNCHANGED <<writer, format, size, fmt_pc>>
      /\ out' = IF writer = "console" THEN out \o t ELSE Prefix(out \o t, Room)
  BY DEF ConvertText, Converting
<1>2. t \in Seq(Letters)
  BY PrintfAssumption
<1>3. at \in Nat \ {0} /\ Len(format) \in Nat /\ writer \in {"libc", "console"}
  BY DEF FmtInv, FmtTypeOK
<1>4. InFormat'
  <2>1. ~(at + 2 > Len(format) + 1)
    BY <1>1, <1>3
  <2>2. QED
    BY <1>1, <2>1 DEF InFormat
<1>5. at' \in Nat \ {0}
  BY <1>1, <1>3
<1>6. \/ out' = out \o t /\ writer # "libc"
      \/ writer = "libc" /\ out' = Prefix(out \o t, Room)
  BY <1>1, <1>3
<1>7. QED
  BY <1>1, <1>2, <1>4, <1>5, <1>6, FmtItem

\* A character, of a conversion or of the format.
LEMMA CharacterStep ==
    ASSUME FmtInv, ConvertChar \/ Literal
    PROVE  FmtInv'
<1>1. at \in Nat \ {0} /\ Len(format) \in Nat /\ at =< Len(format) /\ Looping
      /\ format \in [1..Len(format) -> {"%", "v", "c", "o", "l"}]
      /\ out \in Seq(Letters) /\ full \in Seq(Letters)
  BY DEF FmtInv, FmtTypeOK, ConvertChar, Literal, Looping
<1>2. PICK c \in Letters : /\ out' = Append(out, c) /\ full' = Append(full, c)
                           /\ UNCHANGED <<writer, format, size, fmt_pc>>
                           /\ at' \in Nat \ {0} /\ at' =< Len(format) + 1
  <2>1. CASE ConvertChar
    <3>1. at + 1 \in 1..Len(format)
      BY <1>1, <2>1 DEF ConvertChar, Converting
    <3>2. format[at + 1] \in Letters
      BY <1>1, <3>1 DEF Letters
    <3>3. at' = at + 2 /\ at + 2 =< Len(format) + 1
      BY <1>1, <2>1, <3>1 DEF ConvertChar
    <3>4. QED
      BY <1>1, <2>1, <3>2, <3>3 DEF ConvertChar
  <2>2. CASE Literal
    <3>1. at \in 1..Len(format)
      BY <1>1
    <3>2. format[at] \in Letters
      BY <1>1, <3>1 DEF Letters
    <3>3. at' = at + 1
      BY <2>2 DEF Literal
    <3>4. QED
      BY <1>1, <2>2, <3>2, <3>3 DEF Literal
  <2>3. QED
    BY <2>1, <2>2
<1>3. <<c>> \in Seq(Letters) /\ Len(<<c>>) = 1
  OBVIOUS
<1> DEFINE one == <<c>>
<1>4. out' = out \o one /\ full' = full \o one
  BY <1>1, <1>2, AppendIsConcat
<1>5. InFormat'
  <2>1. ~(at' > Len(format) + 1)
    BY <1>1, <1>2
  <2>2. QED
    BY <1>2, <2>1 DEF InFormat
<1>6. PICK t \in Seq(Letters) : /\ Len(t) =< 1 /\ out' = out \o t /\ full' = full \o t
  <2>1. one \in Seq(Letters) /\ Len(one) =< 1
    BY <1>3
  <2> HIDE DEF one
  <2>2. QED
    BY <1>4, <2>1
<1>7. QED
  BY <1>1, <1>2, <1>5, <1>6, FmtItem

\* A conversion that is none.
LEMMA UnknownStep ==
    ASSUME FmtInv, Unknown
    PROVE  FmtInv'
<1>1. /\ Looping /\ at < Len(format) /\ at' = at + 2 /\ full' = full \o <<"%", "o">>
      /\ out' = out \o <<"%", "o">> /\ format[at] = "%" /\ format[at + 1] = "o"
      /\ UNCHANGED <<writer, format, size, fmt_pc>>
  BY DEF Unknown, Converting
<1>2. at \in Nat \ {0} /\ Len(format) \in Nat
  BY DEF FmtInv, FmtTypeOK
<1>3. PICK t \in Seq(Letters) : Len(t) = 2 /\ full' = full \o t /\ out' = out \o t
  <2>1. "%" \in Letters /\ "o" \in Letters
    BY DEF Letters
  <2>2. <<"%", "o">> \in Seq(Letters) /\ Len(<<"%", "o">>) = 2
    BY <2>1
  <2>3. QED
    BY <1>1, <2>2
<1>4. JustUnknown'
  <2>1. at' > 2 /\ at' - 2 = at /\ at' - 1 = at + 1
    BY <1>1, <1>2
  <2>2. QED
    BY <1>1, <2>1 DEF JustUnknown
<1>5. InFormat'
  <2>1. ~(at + 2 > Len(format) + 1)
    BY <1>1, <1>2
  <2>2. QED
    BY <1>1, <2>1 DEF InFormat
<1>6. at' \in Nat \ {0}
  BY <1>1, <1>2
<1>7. QED
  BY <1>1, <1>3, <1>4, <1>5, <1>6, FmtItem

\* "%l", which only console_vprintf knows.
LEMMA ConvertLongStep ==
    ASSUME FmtInv, NEW t \in Texts, ConvertLong(t)
    PROVE  FmtInv'
<1>1. /\ Looping /\ at < Len(format) /\ at' = at + 3 /\ full' = full \o t /\ out' = out \o t
      /\ format[at] = "%" /\ format[at + 1] = "l"
      /\ UNCHANGED <<writer, format, size, fmt_pc>>
  BY DEF ConvertLong, Converting
<1>2. at \in Nat \ {0} /\ Len(format) \in Nat /\ at + 1 \in 1..Len(format)
  BY <1>1 DEF FmtInv, FmtTypeOK
<1>3. writer = "console" /\ writer # "libc"
  BY <1>1, <1>2 DEF FmtInv, FmtTypeOK
<1>4. t \in Seq(Letters)
  BY PrintfAssumption
<1>5. InFormat'
  <2>1. at + 3 > Len(format) + 1 => Len(format) > 1 /\ at + 1 = Len(format) /\ at = Len(format) - 1
    BY <1>1, <1>2
  <2>2. QED
    BY <1>1, <1>3, <2>1 DEF InFormat
<1>6. at' \in Nat \ {0}
  BY <1>1, <1>2
<1>7. QED
  BY <1>1, <1>3, <1>4, <1>5, <1>6, FmtItem

\* The end of the loop.
LEMMA FmtEndStep ==
    ASSUME FmtInv, FmtEnd
    PROVE  FmtInv'
<1>1. /\ at > Len(format) \/ ~Fits
      /\ fmt_pc' = "done" /\ UNCHANGED <<writer, format, size, at, out, full>>
  BY DEF FmtEnd
<1>2. /\ out \in Seq(Letters) /\ full \in Seq(Letters) /\ size \in Nat /\ size < SizeMod
      /\ Len(out) \in Nat /\ Len(full) \in Nat /\ Bounded
  BY DEF FmtInv, FmtTypeOK
<1>3. ASSUME writer = "libc" => Len(full) < Room
      PROVE  Fits
  <2>1. CASE writer = "libc"
    <3>1. Room \in Nat
      BY <1>2, RoomFact
    <3>2. Prefix(full, Room) = full
      BY <1>2, <1>3, <2>1, <3>1, PrefixFact
    <3>3. Len(out) < Room
      BY <1>2, <1>3, <2>1, <3>1, <3>2 DEF Bounded
    <3>4. QED
      BY <3>3 DEF Fits
  <2>2. CASE writer # "libc"
    BY <2>2 DEF Fits, FmtInv, FmtTypeOK
  <2>3. QED
    BY <2>1, <2>2
<1>4. CutWhenFull'
  BY <1>1, <1>3 DEF CutWhenFull, Room
<1>5. FmtTypeOK' /\ Bounded' /\ InFormat'
  BY <1>1 DEF FmtInv, FmtTypeOK, Bounded, InFormat, JustUnknown, Room
<1>6. QED
  BY <1>4, <1>5 DEF FmtInv

\* Steps of the two functions keep the invariant, and no other step touches it.
LEMMA FmtStep ==
    ASSUME FmtInv, FmtNext \/ UNCHANGED fmtVars
    PROVE  FmtInv'
<1>1. CASE UNCHANGED fmtVars
  BY <1>1 DEF fmtVars, FmtInv, FmtTypeOK, Bounded, InFormat, JustUnknown, CutWhenFull, Room
<1>2. CASE FmtNext
  BY <1>2, ConvertTextStep, ConvertLongStep, CharacterStep, UnknownStep, FmtEndStep DEF FmtNext
<1>3. QED
  BY <1>1, <1>2

\* What the invariant says about a finished call.
LEMMA FmtShows ==
    ASSUME FmtInv
    PROVE  PrintsPrefix
<1>1. /\ out \in Seq(Letters) /\ full \in Seq(Letters) /\ size \in Nat
      /\ Len(out) \in Nat /\ Len(full) \in Nat /\ Bounded /\ InFormat /\ CutWhenFull
      /\ writer \in {"libc", "console"} /\ (writer = "console" => size = 0)
  BY DEF FmtInv, FmtTypeOK
<1>2. Room \in Nat /\ Room = IF size > 0 THEN size - 1 ELSE SizeMod - 1
  BY RoomFact DEF FmtInv, FmtTypeOK
<1>3. ASSUME fmt_pc = "done", size > 0
      PROVE  /\ out = Prefix(full, IF CutConversion THEN size ELSE size - 1)
             /\ Len(full) < size - 1 => at > Len(format)
  <2>1. writer = "libc" /\ Room = size - 1
    BY <1>1, <1>2, <1>3
  <2>2. CASE Len(out) > Room
    <3>1. CutConversion /\ out = full /\ Len(full) =< size
      BY <1>1, <2>1, <2>2 DEF Bounded, JustUnknown, CutConversion
    <3>2. Prefix(full, size) = full
      BY <1>1, <3>1, PrefixFact
    <3>3. QED
      BY <1>1, <1>3, <2>1, <3>1, <3>2 DEF CutWhenFull
  <2>3. CASE ~(Len(out) > Room)
    <3>1. ~CutConversion /\ Len(out) =< Room
      BY <1>1, <1>2, <2>1, <2>3 DEF CutConversion
    <3>2. QED
      BY <1>1, <1>3, <2>1, <3>1 DEF Bounded, CutWhenFull
  <2>4. QED
    BY <2>2, <2>3
<1>4. ASSUME fmt_pc = "done", size = 0, writer = "libc" => Len(full) < SizeMod - 1
      PROVE  out = full /\ at > Len(format)
  <2>1. writer = "libc" => Len(full) < Room
    BY <1>2, <1>4
  <2>2. at > Len(format)
    BY <1>1, <1>4, <2>1 DEF CutWhenFull
  <2>3. CASE writer = "libc"
    <3>1. Prefix(full, Room) = full
      BY <1>1, <1>2, <2>1, <2>3, PrefixFact
    <3>2. Len(out) =< Room \/ Len(out) > Room
      BY <1>1, <1>2
    <3>3. out = full
      BY <1>1, <2>3, <3>1, <3>2 DEF Bounded
    <3>4. QED
      BY <2>2, <3>3
  <2>4. CASE writer # "libc"
    BY <1>1, <2>2, <2>4 DEF Bounded
  <2>5. QED
    BY <2>3, <2>4
<1>5. QED
  BY <1>1, <1>3, <1>4 DEF PrintsPrefix, InFormat

(***************************************************************************)
(* For every format and every size but 0 vsnprintf leaves the beginning of *)
(* the text in the buffer, one byte short of its size; an unknown          *)
(* conversion at the end takes that byte too, and the NUL lands behind the *)
(* buffer.  With size 0 it writes the whole text behind the buffer, and    *)
(* console_vprintf prints all of it.  Neither function reads behind the    *)
(* NUL of the format, but for console_vprintf after "%l" at its end.       *)
(***************************************************************************)
THEOREM PrefixIsPrinted == Spec => []PrintsPrefix
<1>1. Init => FmtInv
  BY FmtInitInv DEF Init
<1>2. FmtInv /\ [Next]_vars => FmtInv'
  BY FmtStep DEF Next, vars
<1>3. FmtInv => PrintsPrefix
  BY FmtShows
<1>4. QED
  BY <1>1, <1>2, <1>3, PTL DEF Spec

-----------------------------------------------------------------------------
(***************************************************************************)
(* malloc, calloc, realloc, free, strdup and strndup.                      *)
(***************************************************************************)
\* What Put writes, and what it leaves alone.
LEMMA PutFact ==
    ASSUME NEW h, Space(h), NEW a \in 1..HeapSize, NEW t \in Seq(Nat), a + Len(t) =< HeapSize + 1
    PROVE  /\ Space(Put(h, a, t)) /\ Has(Put(h, a, t), a, t)
           /\ \A i \in 1..HeapSize : i < a \/ a + Len(t) =< i => Put(h, a, t)[i] = h[i]
<1>1. HeapSize \in Nat /\ h \in [1..HeapSize -> Nat] /\ Len(t) \in Nat /\ a \in Nat
  BY HeapAssumption DEF Space
<1>2. Len(h) = HeapSize
  BY <1>1
<1>3. ASSUME NEW i \in 1..HeapSize, i \in a..(a + Len(t) - 1)
      PROVE  i - a + 1 \in 1..Len(t) /\ t[i - a + 1] \in Nat
  <2>1. i - a + 1 \in 1..Len(t)
    BY <1>1, <1>3
  <2>2. QED
    BY <2>1
<1>4. Space(Put(h, a, t))
  BY <1>1, <1>2, <1>3 DEF Put, Space
<1>5. ASSUME NEW i \in 1..Len(t)
      PROVE  Put(h, a, t)[a + i - 1] = t[i]
  <2>1. PICK j \in 1..HeapSize : j = a + i - 1 /\ j \in a..(a + Len(t) - 1) /\ j - a + 1 = i
    <3>1. a + i - 1 \in 1..HeapSize /\ a + i - 1 \in a..(a + Len(t) - 1) /\ (a + i - 1) - a + 1 = i
      BY <1>1
    <3>2. QED
      BY <3>1
  <2>2. Put(h, a, t)[j] = t[j - a + 1]
    BY <1>2, <2>1 DEF Put
  <2>3. QED
    BY <2>1, <2>2
<1>6. ASSUME NEW i \in 1..HeapSize, i < a \/ a + Len(t) =< i
      PROVE  Put(h, a, t)[i] = h[i]
  <2>1. i \notin a..(a + Len(t) - 1)
    BY <1>1, <1>6
  <2>2. QED
    BY <1>2, <2>1 DEF Put
<1>7. QED
  BY <1>4, <1>5, <1>6 DEF Has

\* Writing into the bytes of a block that is not c leaves c alone.
LEMMA PutElsewhere ==
    ASSUME NEW h, Space(h), NEW a \in 1..HeapSize, NEW t \in Seq(Nat), a + Len(t) =< HeapSize + 1,
           NEW c \in 1..HeapSize, NEW k \in Nat, c + k =< HeapSize + 1,
           a + Len(t) =< c \/ c + k =< a,
           NEW s \in Seq(Nat), Len(s) =< k, Has(h, c, s)
    PROVE  Has(Put(h, a, t), c, s)
<1>1. HeapSize \in Nat /\ a \in Nat /\ c \in Nat /\ Len(t) \in Nat /\ Len(s) \in Nat
  BY HeapAssumption
<1>2. \A i \in 1..HeapSize : i < a \/ a + Len(t) =< i => Put(h, a, t)[i] = h[i]
  BY PutFact
<1>3. ASSUME NEW i \in 1..Len(s)
      PROVE  Put(h, a, t)[c + i - 1] = s[i]
  <2>1. c + i - 1 \in 1..HeapSize /\ (c + i - 1 < a \/ a + Len(t) =< c + i - 1)
    BY <1>1
  <2>2. Put(h, a, t)[c + i - 1] = h[c + i - 1]
    BY <1>2, <2>1
  <2>3. QED
    BY <2>2 DEF Has
<1>4. QED
  BY <1>3 DEF Has

\* A new block.
LEMMA Installed ==
    ASSUME NEW h, NEW b, NEW w, Sound(h, b, w),
           NEW a \in 1..HeapSize, NEW length \in Nat \ {0}, Vacant(b, a, length),
           NEW t \in Seq(Nat), NEW s \in Seq(Nat), Len(t) =< length, Begins(t, s)
    PROVE  Sound(Put(h, a, t), With(b, a, length), With(w, a, s))
<1>1. Space(h) /\ Apart(b) /\ Owned(h, b, w)
  BY DEF Sound
<1>2. /\ HeapSize \in Nat /\ a \in Nat /\ a + length =< HeapSize + 1
      /\ \A c \in DOMAIN b : a + length =< c \/ c + b[c] =< a
      /\ Len(t) \in Nat /\ Len(s) \in Nat /\ Len(s) =< Len(t) /\ Len(s) =< length
      /\ a + Len(t) =< HeapSize + 1
  BY HeapAssumption DEF Vacant, Begins
<1>3. /\ b \in [DOMAIN b -> Nat \ {0}] /\ DOMAIN b \subseteq 1..HeapSize
      /\ \A c \in DOMAIN b : c + b[c] =< HeapSize + 1
      /\ \A c, d \in DOMAIN b : c # d => c + b[c] =< d \/ d + b[d] =< c
  BY <1>1 DEF Apart
<1>4. a \notin DOMAIN b
  <2>1. ASSUME a \in DOMAIN b
        PROVE  FALSE
    <3>1. b[a] \in Nat \ {0} /\ (a + length =< a \/ a + b[a] =< a)
      BY <1>2, <1>3, <2>1
    <3>2. QED
      BY <1>2, <3>1
  <2>2. QED
    BY <2>1
<1>5. PICK b1 : /\ b1 = With(b, a, length)
                /\ DOMAIN b1 = DOMAIN b \cup {a} /\ b1[a] = length
                /\ \A c \in DOMAIN b : b1[c] = b[c]
  <2>1. /\ DOMAIN With(b, a, length) = DOMAIN b \cup {a} /\ With(b, a, length)[a] = length
        /\ \A c \in DOMAIN b : With(b, a, length)[c] = b[c]
    BY <1>4 DEF With
  <2>2. QED
    BY <2>1, Zenon
<1>6. b1 \in [DOMAIN b1 -> Nat \ {0}]
  BY <1>3, <1>4, <1>5 DEF With
<1>7. PICK w1 : /\ w1 = With(w, a, s) /\ w1 \in [DOMAIN b1 -> Seq(Nat)] /\ w1[a] = s
                /\ \A c \in DOMAIN b : w1[c] = w[c]
  <2>1. w \in [DOMAIN b -> Seq(Nat)]
    BY <1>1 DEF Owned
  <2>2. /\ With(w, a, s) \in [DOMAIN b \cup {a} -> Seq(Nat)] /\ With(w, a, s)[a] = s
        /\ \A c \in DOMAIN b : With(w, a, s)[c] = w[c]
    BY <1>4, <2>1 DEF With
  <2>3. QED
    BY <1>5, <2>2
<1>8. Apart(b1)
  <2>1. DOMAIN b1 \subseteq 1..HeapSize
    BY <1>3, <1>5
  <2>2. \A c \in DOMAIN b1 : c + b1[c] =< HeapSize + 1
    BY <1>2, <1>3, <1>5
  <2>3. ASSUME NEW c \in DOMAIN b1, NEW d \in DOMAIN b1, c # d
        PROVE  c + b1[c] =< d \/ d + b1[d] =< c
    BY <1>2, <1>3, <1>5, <2>3
  <2>4. QED
    BY <1>6, <2>1, <2>2, <2>3 DEF Apart
<1>9. PICK h1 : /\ h1 = Put(h, a, t) /\ Space(h1) /\ Has(h1, a, t)
  BY <1>1, <1>2, PutFact
<1>10. Has(h1, a, s)
  <2>1. \A i \in 1..Len(s) : i \in 1..Len(t)
    BY <1>2
  <2>2. QED
    BY <1>9, <2>1 DEF Has, Begins
<1>11. ASSUME NEW c \in DOMAIN b
       PROVE  Len(w[c]) =< b[c] /\ Has(h1, c, w[c])
  <2>1. c \in 1..HeapSize /\ b[c] \in Nat /\ c + b[c] =< HeapSize + 1
    BY <1>3
  <2>2. w[c] \in Seq(Nat) /\ Len(w[c]) =< b[c] /\ Has(h, c, w[c])
    BY <1>1 DEF Owned
  <2>3. a + Len(t) =< c \/ c + b[c] =< a
    BY <1>2, <2>1
  <2>4. Has(Put(h, a, t), c, w[c])
    BY <1>1, <1>2, <2>1, <2>2, <2>3, PutElsewhere
  <2>5. QED
    BY <1>9, <2>2, <2>4
<1>12. Owned(h1, b1, w1)
  <2>1. ASSUME NEW c \in DOMAIN b1
        PROVE  Len(w1[c]) =< b1[c] /\ Has(h1, c, w1[c])
    <3>1. CASE c = a
      BY <1>2, <1>5, <1>7, <1>10, <3>1
    <3>2. CASE c \in DOMAIN b
      BY <1>5, <1>7, <1>11, <3>2
    <3>3. QED
      BY <1>5, <3>1, <3>2
  <2>2. QED
    BY <1>7, <2>1 DEF Owned
<1>13. Sound(h1, b1, w1)
  BY <1>8, <1>9, <1>12 DEF Sound
<1>14. QED
  BY <1>5, <1>7, <1>9, <1>13

\* A block less.
LEMMA Removed ==
    ASSUME NEW h, NEW b, NEW w, Sound(h, b, w), NEW a
    PROVE  Sound(h, Without(b, a), Without(w, a))
<1>1. Space(h) /\ Apart(b) /\ Owned(h, b, w) /\ w \in [DOMAIN b -> Seq(Nat)]
  BY DEF Sound, Owned
<1>2. PICK b1 : /\ b1 = Without(b, a) /\ b1 \in [DOMAIN b1 -> Nat \ {0}]
                /\ DOMAIN b1 = DOMAIN b \ {a} /\ \A c \in DOMAIN b1 : b1[c] = b[c]
  <2>1. b \in [DOMAIN b -> Nat \ {0}]
    BY <1>1 DEF Apart
  <2>2. /\ Without(b, a) \in [DOMAIN b \ {a} -> Nat \ {0}]
        /\ \A c \in DOMAIN b \ {a} : Without(b, a)[c] = b[c]
    BY <2>1 DEF Without
  <2>3. QED
    BY <2>2
<1>3. PICK w1 : /\ w1 = Without(w, a) /\ w1 \in [DOMAIN b1 -> Seq(Nat)]
                /\ \A c \in DOMAIN b1 : w1[c] = w[c]
  <2>1. /\ Without(w, a) \in [DOMAIN b \ {a} -> Seq(Nat)]
        /\ \A c \in DOMAIN b \ {a} : Without(w, a)[c] = w[c]
    BY <1>1 DEF Without
  <2>2. QED
    BY <1>2, <2>1
<1>4. Apart(b1)
  BY <1>1, <1>2 DEF Apart
<1>5. Owned(h, b1, w1)
  BY <1>1, <1>2, <1>3 DEF Owned
<1>6. QED
  BY <1>1, <1>2, <1>3, <1>4, <1>5 DEF Sound

\* The owner writes into its block.
LEMMA Refilled ==
    ASSUME NEW h, NEW b, NEW w, Sound(h, b, w), NEW a \in DOMAIN b,
           NEW t \in Seq(Nat), Len(t) =< b[a]
    PROVE  Sound(Put(h, a, t), b, [w EXCEPT ![a] = t])
<1>1. Space(h) /\ Apart(b) /\ Owned(h, b, w) /\ w \in [DOMAIN b -> Seq(Nat)]
  BY DEF Sound, Owned
<1>2. /\ b \in [DOMAIN b -> Nat \ {0}] /\ DOMAIN b \subseteq 1..HeapSize
      /\ \A c \in DOMAIN b : c + b[c] =< HeapSize + 1
      /\ \A c, d \in DOMAIN b : c # d => c + b[c] =< d \/ d + b[d] =< c
  BY <1>1 DEF Apart
<1>3. /\ HeapSize \in Nat /\ a \in 1..HeapSize /\ b[a] \in Nat /\ Len(t) \in Nat
      /\ a + b[a] =< HeapSize + 1
  BY <1>2, HeapAssumption
<1>4. a + Len(t) =< HeapSize + 1 /\ a \in Nat
  BY <1>3
<1>5. PICK h1 : h1 = Put(h, a, t) /\ Space(h1) /\ Has(h1, a, t)
  BY <1>1, <1>3, <1>4, PutFact
<1>6. PICK w1 : /\ w1 = [w EXCEPT ![a] = t] /\ w1 \in [DOMAIN b -> Seq(Nat)] /\ w1[a] = t
                /\ \A c \in DOMAIN b : c # a => w1[c] = w[c]
  <2>1. /\ [w EXCEPT ![a] = t] \in [DOMAIN b -> Seq(Nat)] /\ [w EXCEPT ![a] = t][a] = t
        /\ \A c \in DOMAIN b : c # a => [w EXCEPT ![a] = t][c] = w[c]
    BY <1>1
  <2>2. QED
    BY <2>1
<1>7. ASSUME NEW c \in DOMAIN b, c # a
      PROVE  Len(w[c]) =< b[c] /\ Has(h1, c, w[c])
  <2>1. c \in 1..HeapSize /\ b[c] \in Nat /\ c + b[c] =< HeapSize + 1
    BY <1>2
  <2>2. w[c] \in Seq(Nat) /\ Len(w[c]) =< b[c] /\ Has(h, c, w[c])
    BY <1>1 DEF Owned
  <2>3. a + Len(t) =< c \/ c + b[c] =< a
    <3>1. a + b[a] =< c \/ c + b[c] =< a
      BY <1>2, <1>7
    <3>2. QED
      BY <1>3, <1>4, <2>1, <3>1
  <2>4. Has(Put(h, a, t), c, w[c])
    BY <1>1, <1>3, <1>4, <2>1, <2>2, <2>3, PutElsewhere
  <2>5. QED
    BY <1>5, <2>2, <2>4
<1>8. Owned(h1, b, w1)
  BY <1>5, <1>6, <1>7 DEF Owned
<1>9. QED
  BY <1>1, <1>5, <1>6, <1>8 DEF Sound

\* strlen finds the NUL.
LEMMA StrlenFact ==
    ASSUME NEW s, CString(s)
    PROVE  Strlen(s) + 1 = Len(s)
<1> DEFINE P(q) == ~(s[q] # NUL) /\ \A r \in 1..(q - 1) : s[r] # NUL
           c == CHOOSE q \in 1..Len(s) : P(q)
<1>1. Len(s) \in Nat \ {0} /\ Len(s) \in 1..Len(s) /\ P(Len(s))
  BY DEF CString
<1>2. c \in 1..Len(s) /\ P(c)
  <2> HIDE DEF P
  <2>1. QED
    BY <1>1
<1>3. Strlen(s) = c - 1
  BY DEF Strlen, Loop
<1> HIDE DEF c
<1>4. ~(c < Len(s))
  <2>1. c < Len(s) => c \in 1..(Len(s) - 1)
    BY <1>1, <1>2
  <2>2. QED
    BY <1>1, <1>2, <2>1
<1>5. c = Len(s) /\ c \in Nat
  BY <1>1, <1>2, <1>4
<1>6. QED
  BY <1>3, <1>5

\* strnlen stops there or at the limit.
LEMMA StrnlenFact ==
    ASSUME NEW s, CString(s), NEW k \in 0..Len(s)
    PROVE  Strnlen(s, k) = IF k < Len(s) THEN k ELSE Len(s) - 1
<1> DEFINE G(q) == s[q] # NUL /\ q =< k
           P(q) == ~G(q) /\ \A r \in 1..(q - 1) : G(r)
           c == CHOOSE q \in 1..Len(s) : P(q)
<1>1. Len(s) \in Nat \ {0} /\ k \in Nat /\ s[Len(s)] = NUL /\ \A i \in 1..(Len(s) - 1) : s[i] # NUL
  BY DEF CString
<1>2. PICK m \in 1..Len(s) : m = IF k < Len(s) THEN k + 1 ELSE Len(s)
  <2>1. (IF k < Len(s) THEN k + 1 ELSE Len(s)) \in 1..Len(s)
    BY <1>1
  <2>2. QED
    BY <2>1
<1>3. P(m)
  <2>1. ~G(m)
    BY <1>1, <1>2
  <2>2. \A r \in 1..(m - 1) : G(r)
    BY <1>1, <1>2
  <2>3. QED
    BY <2>1, <2>2
<1>4. c \in 1..Len(s) /\ P(c)
  <2> HIDE DEF P
  <2>1. QED
    BY <1>3
<1>5. Strnlen(s, k) = c - 1
  BY DEF Strnlen, Loop
<1> HIDE DEF c, G
<1>6. ~(c < m) /\ ~(m < c)
  <2>1. c < m => c \in 1..(m - 1)
    BY <1>1, <1>4
  <2>2. m < c => m \in 1..(c - 1)
    BY <1>1, <1>4
  <2>3. QED
    BY <1>3, <1>4, <2>1, <2>2
<1>7. c = m /\ c \in Nat
  BY <1>1, <1>4, <1>6
<1>8. QED
  BY <1>1, <1>2, <1>5, <1>7

\* The beginning of a sequence.
LEMMA FirstFact ==
    ASSUME NEW s \in Seq(Nat), NEW k \in Nat
    PROVE  /\ First(s, k) \in Seq(Nat)
           /\ Len(First(s, k)) = IF Len(s) < k THEN Len(s) ELSE k
           /\ \A i \in 1..Len(First(s, k)) : First(s, k)[i] = s[i]
<1>1. PICK m \in 0..Len(s) : m = IF Len(s) < k THEN Len(s) ELSE k
  <2>1. (IF Len(s) < k THEN Len(s) ELSE k) \in 0..Len(s)
    BY LenProperties
  <2>2. QED
    BY <2>1
<1>2. First(s, k) = SubSeq(s, 1, m)
  BY <1>1 DEF First
<1>3. /\ SubSeq(s, 1, m) \in Seq(Nat) /\ Len(SubSeq(s, 1, m)) = m
      /\ \A i \in 1..m : SubSeq(s, 1, m)[i] = s[i]
  BY <1>1
<1>4. QED
  BY <1>1, <1>2, <1>3

\* A sequence with one more element.
LEMMA AppendFact ==
    ASSUME NEW s \in Seq(Nat), NEW x \in Nat
    PROVE  /\ Append(s, x) \in Seq(Nat) /\ Len(Append(s, x)) = Len(s) + 1
           /\ Append(s, x)[Len(s) + 1] = x /\ \A i \in 1..Len(s) : Append(s, x)[i] = s[i]
OBVIOUS

\* Zeros are zeros.
LEMMA ZerosFact ==
    ASSUME NEW k \in Nat
    PROVE  Zeros(k) \in Seq(Nat) /\ Len(Zeros(k)) = k
BY DEF Zeros

\* A block that kmalloc hands out keeps the others.
LEMMA AllocatedStep ==
    ASSUME HeapInv, NEW a \in 1..HeapSize, NEW length \in Nat,
           NEW t \in Seq(Nat), NEW s \in Seq(Nat), Allocated(a, length, t, s),
           Len(t) =< length, Begins(t, s)
    PROVE  HeapInv'
<1>1. /\ length \in Nat \ {0} /\ Vacant(blocks, a, length)
      /\ heap' = Put(heap, a, t) /\ blocks' = With(blocks, a, length) /\ want' = With(want, a, s)
  BY DEF Allocated, Kmalloc, Vacant
<1>2. Sound(heap, blocks, want)
  BY DEF HeapInv
<1>3. Sound(Put(heap, a, t), With(blocks, a, length), With(want, a, s))
  BY <1>1, <1>2, Installed
<1>4. QED
  BY <1>1, <1>3 DEF HeapInv

\* malloc and calloc.
LEMMA MallocStep ==
    ASSUME HeapInv, NEW a \in 1..HeapSize,
           \/ \E length \in 1..HeapSize : Malloc(a, length)
           \/ \E nmemb, length \in 1..2 : Calloc(a, nmemb, length)
    PROVE  HeapInv'
<1>1. HeapSize \in Nat
  BY HeapAssumption
<1>2. ASSUME NEW length \in 1..HeapSize, Malloc(a, length)
      PROVE  HeapInv'
  <2> DEFINE e == <<>>
  <2>1. e \in Seq(Nat) /\ Len(e) = 0
    OBVIOUS
  <2>2. Allocated(a, length, e, e) /\ length \in Nat
    BY <1>1, <1>2 DEF Malloc
  <2> HIDE DEF e
  <2>3. Begins(e, e) /\ Len(e) =< length
    BY <2>1, <2>2 DEF Begins
  <2>4. QED
    BY <2>1, <2>2, <2>3, AllocatedStep
<1>3. ASSUME NEW nmemb \in 1..2, NEW length \in 1..2, Calloc(a, nmemb, length)
      PROVE  HeapInv'
  <2>1. PICK n \in Nat : n = nmemb * length
    OBVIOUS
  <2>2. PICK z \in Seq(Nat) : z = Zeros(n) /\ Len(z) = n
    BY ZerosFact
  <2>3. Allocated(a, n, z, z)
    BY <1>3, <2>1, <2>2 DEF Calloc
  <2>4. Begins(z, z) /\ Len(z) =< n
    BY <2>2 DEF Begins
  <2>5. QED
    BY <2>3, <2>4, AllocatedStep
<1>4. QED
  BY <1>2, <1>3

\* The texts are strings.
LEMMA DupText ==
    ASSUME NEW s \in DupTexts
    PROVE  CString(s)
BY HeapAssumption DEF CString

\* strdup copies the NUL too.
LEMMA StrdupStep ==
    ASSUME HeapInv, NEW a \in 1..HeapSize, NEW s \in DupTexts, Strdup(a, s)
    PROVE  HeapInv'
<1>1. CString(s) /\ s \in Seq(Nat) /\ Len(s) \in Nat \ {0}
  BY DupText DEF CString
<1>2. Strlen(s) + 1 = Len(s)
  BY <1>1, StrlenFact
<1>3. Allocated(a, Len(s), First(s, Len(s)), s)
  BY <1>2 DEF Strdup
<1>4. PICK t \in Seq(Nat) : t = First(s, Len(s)) /\ Len(t) = Len(s) /\ \A i \in 1..Len(s) : t[i] = s[i]
  <2>1. /\ First(s, Len(s)) \in Seq(Nat) /\ Len(First(s, Len(s))) = Len(s)
        /\ \A i \in 1..Len(s) : First(s, Len(s))[i] = s[i]
    BY <1>1, FirstFact
  <2>2. QED
    BY <2>1
<1>5. Begins(t, s) /\ Len(t) =< Len(s) /\ Allocated(a, Len(s), t, s) /\ Len(s) \in Nat
  BY <1>1, <1>3, <1>4 DEF Begins
<1>6. QED
  BY <1>1, <1>5, AllocatedStep

\* strndup has a byte for the NUL.
LEMMA StrndupStep ==
    ASSUME HeapInv, NEW a \in 1..HeapSize, NEW s \in DupTexts, NEW k \in 0..Len(s), Strndup(a, s, k)
    PROVE  HeapInv'
<1>1. CString(s) /\ s \in Seq(Nat) /\ Len(s) \in Nat \ {0} /\ s[Len(s)] = NUL /\ k \in Nat
      /\ NUL \in Nat
  BY DupText DEF CString, NUL
<1>2. PICK m \in Nat : m = Strnlen(s, k) /\ m = IF k < Len(s) THEN k ELSE Len(s) - 1
  <2>1. Strnlen(s, k) = IF k < Len(s) THEN k ELSE Len(s) - 1
    BY <1>1, StrnlenFact
  <2>2. Strnlen(s, k) \in Nat
    BY <1>1, <2>1
  <2>3. QED
    BY <2>1, <2>2
<1>3. PICK f \in Seq(Nat) : f = First(s, m) /\ Len(f) = m /\ \A i \in 1..m : f[i] = s[i]
  <2>1. First(s, m) \in Seq(Nat) /\ Len(First(s, m)) = m /\ \A i \in 1..m : First(s, m)[i] = s[i]
    <3>1. /\ First(s, m) \in Seq(Nat) /\ Len(First(s, m)) = IF Len(s) < m THEN Len(s) ELSE m
          /\ \A i \in 1..Len(First(s, m)) : First(s, m)[i] = s[i]
      BY <1>1, FirstFact
    <3>2. m =< Len(s)
      BY <1>1, <1>2
    <3>3. Len(First(s, m)) = m
      BY <1>1, <3>1, <3>2
    <3>4. QED
      BY <3>1, <3>3
  <2>2. QED
    BY <2>1
<1>4. PICK t \in Seq(Nat) : /\ t = Append(First(s, m), NUL) /\ Len(t) = m + 1 /\ t[m + 1] = NUL
                            /\ \A i \in 1..m : t[i] = s[i]
  <2>1. /\ Append(f, NUL) \in Seq(Nat) /\ Len(Append(f, NUL)) = m + 1 /\ Append(f, NUL)[m + 1] = NUL
        /\ \A i \in 1..m : Append(f, NUL)[i] = f[i]
    <3>1. /\ Append(f, NUL) \in Seq(Nat) /\ Len(Append(f, NUL)) = Len(f) + 1
          /\ Append(f, NUL)[Len(f) + 1] = NUL /\ \A i \in 1..Len(f) : Append(f, NUL)[i] = f[i]
      BY <1>1, AppendFact
    <3>2. QED
      BY <1>3, <3>1
  <2>2. QED
    BY <1>3, <2>1
<1>5. PICK c \in Seq(Nat) : /\ c = Cut(s, k) /\ Len(c) = m + 1 /\ c[m + 1] = NUL
                            /\ \A i \in 1..m : c[i] = s[i]
  <2>1. CASE k < Len(s)
    <3>1. PICK u \in Seq(Nat) : u = SubSeq(s, 1, k) /\ Len(u) = k /\ \A i \in 1..k : u[i] = s[i]
      <4>1. SubSeq(s, 1, k) \in Seq(Nat) /\ Len(SubSeq(s, 1, k)) = k
            /\ \A i \in 1..k : SubSeq(s, 1, k)[i] = s[i]
        BY <1>1, <2>1
      <4>2. QED
        BY <4>1
    <3>2. /\ Append(u, NUL) \in Seq(Nat) /\ Len(Append(u, NUL)) = k + 1
          /\ Append(u, NUL)[k + 1] = NUL /\ \A i \in 1..k : Append(u, NUL)[i] = u[i]
      <4>1. /\ Append(u, NUL) \in Seq(Nat) /\ Len(Append(u, NUL)) = Len(u) + 1
            /\ Append(u, NUL)[Len(u) + 1] = NUL /\ \A i \in 1..Len(u) : Append(u, NUL)[i] = u[i]
        BY <1>1, AppendFact
      <4>2. QED
        BY <3>1, <4>1
    <3>3. Cut(s, k) = Append(u, NUL) /\ m = k
      BY <1>1, <1>2, <2>1, <3>1 DEF Cut
    <3>4. PICK c \in Seq(Nat) : /\ c = Append(u, NUL) /\ Len(c) = k + 1 /\ c[k + 1] = NUL
                                /\ \A i \in 1..k : c[i] = u[i]
      BY <3>2
    <3>5. \A i \in 1..m : c[i] = s[i]
      BY <3>1, <3>3, <3>4
    <3>6. QED
      BY <3>3, <3>4, <3>5
  <2>2. CASE ~(k < Len(s))
    <3>1. Cut(s, k) = s /\ m + 1 = Len(s)
      BY <1>1, <1>2, <2>2 DEF Cut
    <3>2. QED
      BY <1>1, <3>1
  <2>3. QED
    BY <2>1, <2>2
<1>6. Allocated(a, m + 1, t, c)
  BY <1>2, <1>4, <1>5, <1>3 DEF Strndup
<1>7. \A i \in 1..Len(c) : t[i] = c[i]
  <2>1. \A i \in 1..Len(c) : i \in 1..m \/ i = m + 1
    BY <1>2, <1>5
  <2>2. QED
    BY <1>4, <1>5, <2>1
<1>8. m + 1 \in Nat /\ Len(t) =< m + 1 /\ Begins(t, c)
  <2>1. m + 1 \in Nat /\ Len(t) = m + 1 /\ Len(c) = m + 1
    BY <1>4, <1>5
  <2>2. Len(c) =< Len(t) /\ Len(t) =< m + 1
    BY <2>1
  <2>3. QED
    BY <1>7, <2>1, <2>2 DEF Begins
<1>9. QED
  BY <1>6, <1>8, AllocatedStep

\* realloc copies what the owner had before it frees the old block.
LEMMA ReallocStep ==
    ASSUME HeapInv, NEW a \in 1..HeapSize, NEW length \in 1..HeapSize, NEW old \in DOMAIN blocks,
           Realloc(old, a, length)
    PROVE  HeapInv'
<1> DEFINE behind == [i \in 1..length |-> IF old + i =< HeapSize + 1 THEN heap[old + i - 1] ELSE Any]
           kept == First(want[old], length)
           b1 == With(blocks, a, length)
           w1 == With(want, a, kept)
<1>1. /\ Vacant(blocks, a, length) /\ heap' = Put(heap, a, behind)
      /\ blocks' = Without(b1, old) /\ want' = Without(w1, old)
  BY DEF Realloc, Kmalloc, Vacant
<1>2. /\ Sound(heap, blocks, want) /\ heap \in [1..HeapSize -> Nat] /\ HeapSize \in Nat
      /\ length \in Nat \ {0} /\ old \in 1..HeapSize /\ blocks[old] \in Nat
      /\ old + blocks[old] =< HeapSize + 1 /\ want[old] \in Seq(Nat)
      /\ Len(want[old]) =< blocks[old] /\ Has(heap, old, want[old])
  BY HeapAssumption, SMTT(30) DEF HeapInv, Sound, Space, Apart, Owned
<1>3. behind \in Seq(Nat) /\ Len(behind) = length
  <2>1. \A i \in 1..length : old + i =< HeapSize + 1 => old + i - 1 \in 1..HeapSize
    BY <1>2, SMTT(30)
  <2>2. behind \in [1..length -> Nat]
    BY <1>2, <2>1, SMTT(30) DEF Any
  <2> HIDE DEF behind
  <2>3. length \in Nat
    BY <1>2
  <2>4. QED
    BY <2>2, <2>3
<1>4. /\ kept \in Seq(Nat) /\ Len(kept) =< length /\ Len(kept) =< Len(want[old])
      /\ \A i \in 1..Len(kept) : kept[i] = want[old][i]
  <2>1. PICK s \in Seq(Nat) : s = want[old]
    BY <1>2
  <2>2. /\ First(s, length) \in Seq(Nat) /\ Len(First(s, length)) = IF Len(s) < length THEN Len(s) ELSE length
        /\ \A i \in 1..Len(First(s, length)) : First(s, length)[i] = s[i]
    BY <1>2, <2>1, FirstFact
  <2>3. Len(s) \in Nat
    BY <2>1
  <2>4. QED
    BY <1>2, <2>1, <2>2, <2>3, SMTT(30)
<1>5. ASSUME NEW i \in 1..Len(kept)
      PROVE  behind[i] = kept[i]
  <2> HIDE DEF kept
  <2>1. Len(kept) \in Nat /\ Len(want[old]) \in Nat
    <3>1. kept \in Seq(Nat) /\ want[old] \in Seq(Nat)
      BY ONLY <1>2, <1>4
    <3>2. \A s \in Seq(Nat) : Len(s) \in Nat
      OBVIOUS
    <3>3. QED
      BY ONLY <3>1, <3>2
  <2>2. i \in 1..length /\ i \in 1..Len(want[old]) /\ old + i =< HeapSize + 1
    <3>1. PICK k \in Nat : k = Len(kept) /\ k =< length /\ k =< Len(want[old])
      BY <1>4, <2>1
    <3>2. PICK l \in Nat : l = Len(want[old]) /\ l =< blocks[old] /\ k =< l
      BY <1>2, <2>1, <3>1
    <3>3. i \in 1..k /\ length \in Nat /\ old \in Nat /\ HeapSize \in Nat /\ blocks[old] \in Nat
      BY <1>2, <3>1
    <3>4. i \in 1..length /\ i \in 1..l /\ i =< blocks[old]
      BY <3>1, <3>2, <3>3
    <3>5. old + blocks[old] =< HeapSize + 1
      BY <1>2
    <3>6. old + i =< HeapSize + 1
      BY <3>3, <3>4, <3>5
    <3>7. QED
      BY <3>2, <3>4, <3>6
  <2>3. behind[i] = heap[old + i - 1]
    BY <2>2
  <2>4. heap[old + i - 1] = want[old][i]
    BY <1>2, <2>2 DEF Has
  <2>5. QED
    BY <1>4, <2>3, <2>4
<1> HIDE DEF behind, kept
<1>6. Sound(Put(heap, a, behind), b1, w1)
  <2>1. Begins(behind, kept) /\ Len(behind) =< length
    BY <1>2, <1>3, <1>4, <1>5 DEF Begins
  <2>2. QED
    BY <1>1, <1>2, <1>3, <1>4, <2>1, Installed
<1> HIDE DEF b1, w1
<1>7. Sound(Put(heap, a, behind), Without(b1, old), Without(w1, old))
  BY <1>6, Removed
<1>8. QED
  BY <1>1, <1>7 DEF HeapInv

\* free, a realloc that fails, and the owner at work.
LEMMA OwnStep ==
    ASSUME HeapInv, NEW a \in DOMAIN blocks, Free(a) \/ ReallocFails(a) \/ Fill(a)
    PROVE  HeapInv'
<1>1. Sound(heap, blocks, want)
  BY DEF HeapInv
<1>2. CASE Free(a)
  <2>1. heap' = heap /\ blocks' = Without(blocks, a) /\ want' = Without(want, a)
    BY <1>2 DEF Free
  <2>2. Sound(heap, Without(blocks, a), Without(want, a))
    BY <1>1, Removed
  <2>3. QED
    BY <2>1, <2>2 DEF HeapInv
<1>3. CASE ReallocFails(a)
  <2>1. heap' = heap /\ blocks' = blocks /\ want' = want
    BY <1>3 DEF ReallocFails
  <2>2. QED
    BY <1>1, <2>1 DEF HeapInv
<1>4. CASE Fill(a)
  <2> DEFINE own == [i \in 1..blocks[a] |-> a]
  <2>1. heap' = Put(heap, a, own) /\ want' = [want EXCEPT ![a] = own] /\ blocks' = blocks
    BY <1>4 DEF Fill
  <2>2. a \in Nat /\ blocks[a] \in Nat
    BY <1>1, HeapAssumption DEF Sound, Apart
  <2>3. own \in Seq(Nat) /\ Len(own) = blocks[a]
    BY <2>2
  <2> HIDE DEF own
  <2>4. Sound(Put(heap, a, own), blocks, [want EXCEPT ![a] = own])
    BY <1>1, <2>2, <2>3, Refilled
  <2>5. QED
    BY <2>1, <2>4 DEF HeapInv
<1>5. QED
  BY <1>2, <1>3, <1>4

\* Before the first call.
LEMMA HeapInitInv ==
    ASSUME HeapInit \/ HeapRest
    PROVE  HeapInv
<1>1. heap = [i \in 1..HeapSize |-> Any] /\ blocks = <<>> /\ want = <<>>
  BY DEF HeapInit, HeapRest, HeapStart
<1>2. Space(heap)
  BY <1>1 DEF Space, Any
<1>3. DOMAIN blocks = {} /\ blocks \in [{} -> Nat \ {0}] /\ want \in [{} -> Seq(Nat)]
  <2>1. 1..0 = {} /\ <<>> \in [1..0 -> Nat \ {0}] /\ <<>> \in [1..0 -> Seq(Nat)]
    OBVIOUS
  <2>2. QED
    BY <1>1, <2>1
<1>4. QED
  BY <1>2, <1>3 DEF HeapInv, Sound, Apart, Owned

\* Steps of these functions keep the invariant, and no other step touches it.
LEMMA HeapStep ==
    ASSUME HeapInv, HeapNext \/ UNCHANGED heapVars
    PROVE  HeapInv'
<1>1. CASE UNCHANGED heapVars \/ HeapEnd
  <2>1. heap' = heap /\ blocks' = blocks /\ want' = want
    BY <1>1 DEF heapVars, HeapEnd
  <2>2. QED
    BY <2>1 DEF HeapInv
<1>2. ASSUME NEW a \in 1..HeapSize,
             \/ \E length \in 1..HeapSize :
                   Malloc(a, length) \/ \E old \in DOMAIN blocks : Realloc(old, a, length)
             \/ \E nmemb, length \in 1..2 : Calloc(a, nmemb, length)
             \/ \E s \in DupTexts : Strdup(a, s) \/ \E k \in 0..Len(s) : Strndup(a, s, k)
      PROVE  HeapInv'
  BY <1>2, MallocStep, ReallocStep, StrdupStep, StrndupStep
<1>3. QED
  BY <1>1, <1>2, OwnStep DEF HeapNext

(***************************************************************************)
(* However blocks of any length are allocated, resized and freed, every      *)
(* block holds the bytes its owner relies on.                              *)
(***************************************************************************)
THEOREM HeapIsSound == Spec => []HeapContents
<1>1. Init => HeapInv
  BY HeapInitInv DEF Init
<1>2. HeapInv /\ [Next]_vars => HeapInv'
  BY HeapStep DEF Next, vars
<1>3. HeapInv => HeapContents
  BY DEF HeapInv, Sound, Owned, Has, HeapContents
<1>4. QED
  BY <1>1, <1>2, <1>3, PTL DEF Spec

-----------------------------------------------------------------------------
(***************************************************************************)
(* strftime and asctime.                                                   *)
(***************************************************************************)
\* The items of a format.
LEMMA ItemsType ==
    /\ TimeItems \subseteq ItemT
    /\ \A k \in Nat : TextItem(k) \in ItemT /\ TextItem(k).kind = "text" /\ TextItem(k).len = k
    /\ Plain \in ItemT /\ Plain.kind = "plain"
    /\ Two \in ItemT /\ Two.kind = "%02d"
<1>1. ASSUME NEW k \in Nat
      PROVE  TextItem(k) \in ItemT /\ TextItem(k).kind = "text" /\ TextItem(k).len = k
  BY DEF TextItem, ItemT
<1>2. Plain \in ItemT /\ Plain.kind = "plain"
  BY DEF Plain, Item, ItemT
<1>3. Two \in ItemT /\ Two.kind = "%02d"
  BY DEF Two, Item, ItemT
<1>4. Item("%%") \in ItemT /\ Item("unknown") \in ItemT
  BY DEF Item, ItemT
<1>5. TimeItems \subseteq ItemT
  BY <1>1, <1>2, <1>3, <1>4, StrftimeAssumption DEF TimeItems
<1>6. QED
  BY <1>1, <1>2, <1>3, <1>5

\* The items of asctime.
LEMMA AsctimeItems ==
    /\ Len(AsctimeFormat) = 14 /\ AsctimeFormat \in [1..14 -> ItemT]
    /\ AsctimeFormat[1] = TextItem(3) /\ AsctimeFormat[2] = Plain
    /\ AsctimeFormat[3] = TextItem(3) /\ AsctimeFormat[4] = Plain
    /\ AsctimeFormat[5] = Two /\ AsctimeFormat[6] = Plain
    /\ AsctimeFormat[7] = Two /\ AsctimeFormat[8] = Plain
    /\ AsctimeFormat[9] = Two /\ AsctimeFormat[10] = Plain
    /\ AsctimeFormat[11] = Two /\ AsctimeFormat[12] = Plain
    /\ AsctimeFormat[13] = TextItem(4) /\ AsctimeFormat[14] = Plain
<1>1. PICK t3 \in ItemT : t3 = TextItem(3)
  BY ItemsType
<1>2. PICK t4 \in ItemT : t4 = TextItem(4)
  BY ItemsType
<1>3. PICK p \in ItemT : p = Plain
  BY ItemsType
<1>4. PICK t2 \in ItemT : t2 = Two
  BY ItemsType
<1>5. AsctimeFormat = <<t3, p, t3, p, t2, p, t2, p, t2, p, t2, p, t4, p>>
  BY <1>1, <1>2, <1>3, <1>4 DEF AsctimeFormat
<1>6. QED
  BY <1>1, <1>2, <1>3, <1>4, <1>5

\* Before the first item, and a program that does not call strftime.
LEMMA TfInitInv ==
    ASSUME TfInit \/ TfRest
    PROVE  TfInv
<1>1. Len(tf_format) \in Nat /\ tf_format \in [1..Len(tf_format) -> ItemT] /\ tf_max \in Nat \ {0}
  <2>1. ASSUME NEW k \in 0..MaxItems, tf_format \in [1..k -> TimeItems], tf_max \in 1..MaxTime
        PROVE  Len(tf_format) \in Nat /\ tf_format \in [1..Len(tf_format) -> ItemT]
               /\ tf_max \in Nat \ {0}
    <3>1. k \in Nat /\ MaxTime \in Nat
      BY StrftimeAssumption
    <3>2. Len(tf_format) = k
      BY <2>1, <3>1
    <3>3. tf_max \in Nat \ {0}
      BY <2>1, <3>1
    <3>4. QED
      BY <2>1, <3>1, <3>2, <3>3, ItemsType
  <2>2. CASE tf_format = AsctimeFormat /\ tf_max = AsctimeSize
    <3>1. tf_max \in Nat \ {0}
      BY <2>2 DEF AsctimeSize
    <3>2. QED
      BY <2>2, <3>1, AsctimeItems
  <2>3. CASE TfRest
    <3>1. tf_format = <<>> /\ tf_max = 1
      BY <2>3 DEF TfRest
    <3>2. <<>> \in [1..0 -> ItemT] /\ Len(<<>>) = 0
      OBVIOUS
    <3>3. QED
      BY <3>1, <3>2
  <2>4. QED
    BY <2>1, <2>2, <2>3 DEF TfInit
<1>2. /\ tf_at = 1 /\ tf_count = 0
      /\ \/ tf_written = {} /\ tf_pc = "loop"
         \/ tf_written = {0} /\ tf_pc = "done"
  BY DEF TfInit, TfRest
<1>3. TfTypeOK
  BY <1>1, <1>2 DEF TfTypeOK
<1>4. Filled
  <2>1. 0..0 = {0} /\ 0..(0 - 1) = {}
    OBVIOUS
  <2>2. tf_count < tf_max
    BY <1>1, <1>2
  <2>3. QED
    BY <1>2, <2>1, <2>2 DEF Filled
<1>5. InAsctime
  <2>1. AsctimeCount[1] = 0 /\ 1 \in 1..12
    BY DEF AsctimeCount
  <2>2. QED
    BY <1>2, <2>1 DEF InAsctime
<1>6. QED
  BY <1>3, <1>4, <1>5 DEF TfInv

\* snprintf writes at least its NUL, and more than there is room for only when
\* two bytes are left for a "%02d".
LEMMA PrintedFact ==
    ASSUME NEW item \in ItemT, tf_max \in Nat, tf_count \in Nat, tf_count < tf_max - 1,
           item.kind \in {"text", "%02d"}
    PROVE  /\ Printed(item) \in Nat
           /\ \/ tf_count + Printed(item) < tf_max
              \/ item.kind = "%02d" /\ tf_count + Printed(item) = tf_max
<1>1. PICK room \in Nat : room = TimeRoom /\ room > 1 /\ tf_count + room = tf_max
  <2>1. TimeRoom \in Nat /\ TimeRoom > 1 /\ tf_count + TimeRoom = tf_max
    BY DEF TimeRoom
  <2>2. QED
    BY <2>1
<1>2. item.len \in Nat
  BY DEF ItemT
<1>3. CASE item.kind = "text"
  <2>1. Printed(item) = IF item.len < room - 1 THEN item.len ELSE room - 1
    BY <1>1, <1>3 DEF Printed, Smaller
  <2>2. QED
    BY <1>1, <1>2, <2>1
<1>4. CASE item.kind = "%02d"
  <2>1. Printed(item) = IF room > 3 THEN (IF 4 < room - 1 THEN 4 ELSE room - 1) ELSE 2
    BY <1>1, <1>4 DEF Printed, Smaller
  <2>2. QED
    BY <1>1, <1>4, <2>1
<1>5. QED
  BY <1>3, <1>4

\* What an item of each kind does.
LEMMA ItemFacts ==
    ASSUME TfTypeOK, FormatItem
    PROVE  /\ tf_at \in 1..Len(tf_format) /\ tf_format[tf_at] \in ItemT
           /\ tf_count < tf_max - 1 /\ tf_pc = "loop" /\ tf_at' = tf_at + 1
           /\ UNCHANGED <<tf_format, tf_max, tf_pc>>
           /\ tf_count' \in Nat
<1>1. /\ tf_at =< Len(tf_format) /\ tf_count < tf_max - 1 /\ tf_pc = "loop"
      /\ tf_at' = tf_at + 1 /\ UNCHANGED <<tf_format, tf_max, tf_pc>>
  BY DEF FormatItem
<1>2. /\ Len(tf_format) \in Nat /\ tf_format \in [1..Len(tf_format) -> ItemT]
      /\ tf_max \in Nat /\ tf_at \in 1..(Len(tf_format) + 1) /\ tf_count \in Nat
  BY DEF TfTypeOK
<1>3. tf_at \in 1..Len(tf_format)
  BY <1>1, <1>2
<1>4. tf_format[tf_at] \in ItemT
  BY <1>2, <1>3
<1>5. \/ tf_format[tf_at].kind \in {"text", "%02d"} /\ tf_count' = tf_count + Printed(tf_format[tf_at])
      \/ tf_count' = tf_count + 1 \/ tf_count' = tf_count + 2
      \/ \E c \in {1, 2} : tf_count' = tf_count + c + 2
  BY DEF FormatItem
<1>6. tf_format[tf_at].kind \in {"text", "%02d"} => Printed(tf_format[tf_at]) \in Nat
  BY <1>1, <1>2, <1>4, PrintedFact
<1>7. tf_count' \in Nat
  BY <1>2, <1>5, <1>6
<1>8. QED
  BY <1>1, <1>3, <1>4, <1>7

\* One item leaves no gap.
LEMMA ItemFilled ==
    ASSUME TfInv, FormatItem
    PROVE  Filled'
<1>1. /\ tf_at \in 1..Len(tf_format) /\ tf_format[tf_at] \in ItemT
      /\ tf_count < tf_max - 1 /\ tf_pc = "loop" /\ tf_at' = tf_at + 1
      /\ UNCHANGED <<tf_format, tf_max, tf_pc>>
      /\ tf_count' \in Nat /\ tf_count \in Nat /\ tf_max \in Nat \ {0} /\ Len(tf_format) \in Nat
  BY ItemFacts DEF TfInv, TfTypeOK
<1>2. PICK item \in ItemT : item = tf_format[tf_at]
  BY <1>1
<1>3. SUFFICES ASSUME CountedOnce'
               PROVE  /\ tf_written' = 0..tf_count' \/ tf_written' = 0..(tf_count' - 1)
                      /\ tf_count' < tf_max \/ Tight'
  BY <1>1 DEF Filled
<1>4. (tf_at + 1) - 1 = tf_at /\ tf_at \in Nat
  BY <1>1
<1>5. TimeDone' = {tf_format[k].kind : k \in 1..tf_at}
  BY <1>1, <1>4 DEF TimeDone
<1>6. CountedOnce /\ item.kind \notin {"%%", "unknown"}
  <2>1. item.kind \in TimeDone'
    BY <1>1, <1>2, <1>4, <1>5
  <2>2. TimeDone \subseteq TimeDone'
    <3>1. \A k \in 1..(tf_at - 1) : k \in 1..tf_at
      BY <1>4
    <3>2. QED
      BY <1>5, <3>1 DEF TimeDone
  <2>3. QED
    BY <1>3, <2>1, <2>2 DEF CountedOnce
<1>7. tf_written = 0..tf_count \/ tf_written = 0..(tf_count - 1)
  BY <1>6 DEF TfInv, Filled
<1>8. CASE item.kind \in {"text", "%02d"}
  <2>1. PICK p \in Nat : /\ p = Printed(item)
                         /\ tf_count + p < tf_max \/ (item.kind = "%02d" /\ tf_count + p = tf_max)
    BY <1>1, <1>8, PrintedFact
  <2>2. tf_written' = tf_written \cup (tf_count..(tf_count + p)) /\ tf_count' = tf_count + p
    BY <1>2, <1>8, <2>1 DEF FormatItem
  <2>3. (0..tf_count) \cup (tf_count..(tf_count + p)) = 0..(tf_count + p)
        /\ (0..(tf_count - 1)) \cup (tf_count..(tf_count + p)) = 0..(tf_count + p)
    BY <1>1, <2>1
  <2>4. tf_written' = 0..tf_count'
    BY <1>7, <2>2, <2>3
  <2>5. ASSUME item.kind = "%02d", tf_count + p = tf_max
        PROVE  Tight'
    <3>1. item = Two
      BY <2>5 DEF ItemT
    <3>2. tf_at + 1 > 1
      BY <1>1, <1>4
    <3>3. QED
      BY <1>1, <1>2, <1>4, <2>2, <2>5, <3>1, <3>2 DEF Tight
  <2>6. QED
    BY <2>1, <2>2, <2>4, <2>5
<1>9. CASE item.kind = "plain"
  <2>1. tf_written' = tf_written \cup {tf_count} /\ tf_count' = tf_count + 1
    BY <1>2, <1>9 DEF FormatItem
  <2>2. (0..tf_count) \cup {tf_count} = 0..tf_count
        /\ (0..(tf_count - 1)) \cup {tf_count} = 0..tf_count
    BY <1>1
  <2>3. (tf_count + 1) - 1 = tf_count /\ tf_count + 1 < tf_max
    BY <1>1
  <2>4. QED
    BY <1>7, <2>1, <2>2, <2>3
<1>10. item.kind \in {"text", "%02d", "plain"}
  BY <1>6 DEF ItemT
<1>11. QED
  BY <1>8, <1>9, <1>10

\* The next count of asctime.
LEMMA ItemInAsctime ==
    ASSUME TfInv, FormatItem
    PROVE  InAsctime'
<1>1. SUFFICES ASSUME tf_format = AsctimeFormat, tf_max = AsctimeSize
               PROVE  tf_at + 1 \in 1..12 /\ tf_count' = AsctimeCount[tf_at + 1]
  BY ItemFacts DEF TfInv, InAsctime
<1>2. tf_at \in 1..12 /\ tf_count = AsctimeCount[tf_at] /\ tf_count < 25
  BY <1>1, ItemFacts DEF TfInv, InAsctime, AsctimeSize
<1>3. /\ tf_format[tf_at].kind \in {"text", "%02d"} => tf_count' = tf_count + Printed(tf_format[tf_at])
      /\ tf_format[tf_at].kind = "plain" => tf_count' = tf_count + 1
  BY DEF FormatItem
<1>4. ASSUME tf_format[tf_at] = Plain
      PROVE  tf_count' = tf_count + 1
  BY <1>3, <1>4, ItemsType
<1>5. ASSUME tf_format[tf_at] = Two
      PROVE  tf_count' = tf_count + (IF 26 - tf_count > 3
                                     THEN (IF 4 < 25 - tf_count THEN 4 ELSE 25 - tf_count) ELSE 2)
  <2>1. tf_count \in Nat /\ 26 - tf_count - 1 = 25 - tf_count
    BY DEF TfInv, TfTypeOK
  <2>2. QED
    BY <1>1, <1>3, <1>5, <2>1, ItemsType DEF Printed, TimeRoom, Smaller, AsctimeSize
<1>6. ASSUME tf_format[tf_at] = TextItem(3), tf_count < 20
      PROVE  tf_count' = tf_count + 3
  <2>1. TextItem(3).kind = "text" /\ TextItem(3).len = 3
    BY DEF TextItem
  <2>2. tf_count \in Nat /\ 3 < 26 - tf_count - 1
    BY <1>6 DEF TfInv, TfTypeOK
  <2>3. Printed(TextItem(3)) = 3
    BY <1>1, <2>1, <2>2 DEF Printed, TimeRoom, Smaller, AsctimeSize
  <2>4. QED
    BY <1>3, <1>6, <2>1, <2>3
<1>7. /\ AsctimeCount[1] = 0 /\ AsctimeCount[2] = 3 /\ AsctimeCount[3] = 4 /\ AsctimeCount[4] = 7
      /\ AsctimeCount[5] = 8 /\ AsctimeCount[6] = 12 /\ AsctimeCount[7] = 13
      /\ AsctimeCount[8] = 17 /\ AsctimeCount[9] = 18 /\ AsctimeCount[10] = 22
      /\ AsctimeCount[11] = 23 /\ AsctimeCount[12] = 25
  BY DEF AsctimeCount
<1>8. CASE tf_at \in {1, 3}
  BY <1>1, <1>2, <1>6, <1>7, <1>8, AsctimeItems
<1>9. CASE tf_at \in {2, 4, 6, 8, 10}
  BY <1>1, <1>2, <1>4, <1>7, <1>9, AsctimeItems
<1>10. CASE tf_at \in {5, 7, 9, 11}
  BY <1>1, <1>2, <1>5, <1>7, <1>10, AsctimeItems
<1>11. tf_at # 12
  BY <1>2, <1>7
<1>12. QED
  BY <1>2, <1>8, <1>9, <1>10, <1>11

\* Steps of strftime keep the invariant, and no other step touches it.
LEMMA TfStep ==
    ASSUME TfInv, TfNext \/ UNCHANGED tfVars
    PROVE  TfInv'
<1>1. CASE FormatItem
  <2>1. TfTypeOK'
    BY <1>1, ItemFacts DEF TfInv, TfTypeOK
  <2>2. QED
    BY <1>1, <2>1, ItemFilled, ItemInAsctime DEF TfInv
<1>2. CASE FormatEnd
  <2>1. /\ tf_written' = tf_written \cup {tf_count} /\ tf_pc = "loop" /\ tf_pc' = "done"
        /\ UNCHANGED <<tf_format, tf_max, tf_at, tf_count>>
    BY <1>2 DEF FormatEnd
  <2>2. TfTypeOK' /\ InAsctime'
    BY <2>1 DEF TfInv, TfTypeOK, InAsctime
  <2>3. Filled'
    <3>1. tf_count \in Nat
      BY DEF TfInv, TfTypeOK
    <3>2. (0..tf_count) \cup {tf_count} = 0..tf_count
          /\ (0..(tf_count - 1)) \cup {tf_count} = 0..tf_count
      BY <3>1
    <3>3. CountedOnce' => CountedOnce
      BY <2>1 DEF CountedOnce, TimeDone
    <3>4. Tight => Tight'
      BY <2>1 DEF Tight
    <3>5. QED
      BY <2>1, <3>2, <3>3, <3>4 DEF TfInv, Filled
  <2>4. QED
    BY <2>2, <2>3 DEF TfInv
<1>3. CASE UNCHANGED tfVars
  BY <1>3 DEF tfVars, TfInv, TfTypeOK, Filled, CountedOnce, TimeDone, Tight, InAsctime
<1>4. QED
  BY <1>1, <1>2, <1>3 DEF TfNext

\* What the invariant says about a finished call.
LEMMA TfShows ==
    ASSUME TfInv
    PROVE  FormatsTime
<1>1. SUFFICES ASSUME tf_pc = "done"
               PROVE  \/ tf_written = 0..tf_count /\ tf_count < tf_max
                      \/ /\ tf_format # AsctimeFormat \/ tf_max # AsctimeSize
                         /\ Tight \/ ~CountedOnce
  BY DEF FormatsTime, CountedOnce
<1>2. CASE tf_format = AsctimeFormat /\ tf_max = AsctimeSize
  <2>1. tf_at \in 1..12 /\ tf_count = AsctimeCount[tf_at]
    BY <1>2 DEF TfInv, InAsctime
  <2>2. tf_count < tf_max
    BY <1>2, <2>1 DEF AsctimeCount, AsctimeSize
  <2>3. \A k \in 1..(tf_at - 1) : tf_format[k].kind \in {"text", "%02d", "plain"}
    <3>1. \A k \in 1..14 : AsctimeFormat[k] \in {TextItem(3), TextItem(4), Plain, Two}
      BY AsctimeItems
    <3>2. \A i \in {TextItem(3), TextItem(4), Plain, Two} : i.kind \in {"text", "%02d", "plain"}
      BY ItemsType
    <3>3. \A k \in 1..(tf_at - 1) : k \in 1..14
      BY <2>1
    <3>4. QED
      BY <1>2, <3>1, <3>2, <3>3
  <2>4. CountedOnce
    BY <2>3 DEF CountedOnce, TimeDone
  <2>5. QED
    BY <1>1, <2>2, <2>4 DEF TfInv, Filled
<1>3. CASE ~(tf_format = AsctimeFormat /\ tf_max = AsctimeSize)
  BY <1>1, <1>3 DEF TfInv, Filled
<1>4. QED
  BY <1>2, <1>3

(***************************************************************************)
(* strftime fills arrays of any size without a gap and ends with its NUL   *)
(* inside, for every format but those it counts wrongly; asctime, whose    *)
(* format is cut off by its 26 bytes, is none of them.                     *)
(***************************************************************************)
THEOREM TimeIsFormatted == Spec => []FormatsTime
<1>1. Init => TfInv
  BY TfInitInv DEF Init
<1>2. TfInv /\ [Next]_vars => TfInv'
  BY TfStep DEF Next, vars
<1>3. TfInv => FormatsTime
  BY TfShows
<1>4. QED
  BY <1>1, <1>2, <1>3, PTL DEF Spec

-----------------------------------------------------------------------------
(***************************************************************************)
(* The functions that write strings.                                       *)
(***************************************************************************)
\* Where the characters of a string are.
LEMMA ReadsFacts ==
    ASSUME NEW b, NEW p, NEW t, Reads(b, p, t)
    PROVE  /\ BufSize \in Nat \ {0} /\ p \in Nat \ {0} /\ Len(t) \in Nat /\ p + Len(t) \in p..BufSize
           /\ b \in Seq(Chars) /\ Len(b) = BufSize + 2
           /\ \A k \in p..(p + Len(t) - 1) : k - p + 1 \in 1..Len(t) /\ b[k] = t[k - p + 1] /\ b[k] # NUL
<1>1. BufSize \in Nat \ {0} /\ p \in 1..BufSize /\ Len(t) \in Nat /\ p + Len(t) =< BufSize
  BY BufAssumption DEF Reads
<1>2. ASSUME NEW k \in p..(p + Len(t) - 1)
      PROVE  k - p + 1 \in 1..Len(t) /\ b[k] = t[k - p + 1] /\ b[k] # NUL
  <2>1. k - p + 1 \in 1..Len(t) /\ p + (k - p + 1) - 1 = k
    BY <1>1
  <2>2. b[k] = t[k - p + 1]
    BY <2>1 DEF Reads
  <2>3. t[k - p + 1] # NUL
    BY <2>1 DEF Reads
  <2>4. QED
    BY <2>1, <2>2, <2>3
<1>3. QED
  BY <1>1, <1>2 DEF Reads, Array

\* strlen, and the loop that looks for the NUL from anywhere.
LEMMA NulFound ==
    ASSUME NEW b, NEW p, NEW t, Reads(b, p, t), NEW last \in BufSize..(BufSize + 2)
    PROVE  Loop(p, last, LAMBDA k : b[k] # NUL) = p + Len(t)
<1> DEFINE G == {k \in Int : b[k] # NUL}
           m == p + Len(t)
<1>1. BufSize \in Nat /\ p \in Nat /\ Len(t) \in Nat /\ m \in p..last /\ last \in Nat
  BY ReadsFacts
<1>2. m \notin G /\ \A r \in p..(m - 1) : r \in G
  <2>1. b[m] = NUL
    BY DEF Reads
  <2>2. \A r \in p..(m - 1) : r \in Int /\ b[r] # NUL
    <3>1. \A r \in p..(p + Len(t) - 1) : b[r] # NUL
      BY ReadsFacts
    <3>2. QED
      BY <1>1, <3>1
  <2>3. QED
    BY <2>1, <2>2
<1>3. m = CHOOSE q \in p..last : ~(q \in G) /\ \A r \in p..(q - 1) : r \in G
  <2> HIDE DEF G, m
  <2>1. QED
    BY <1>1, <1>2, StopsAt
<1>4. \A q \in p..last : q \in G <=> b[q] # NUL
  BY <1>1
<1>5. \A q \in p..last : \A r \in p..(q - 1) : r \in G <=> b[r] # NUL
  BY <1>1
<1>6. \A q \in p..last : (~(q \in G) /\ \A r \in p..(q - 1) : r \in G)
                         <=> (~(b[q] # NUL) /\ \A r \in p..(q - 1) : b[r] # NUL)
  <2> HIDE DEF G
  <2>1. QED
    BY <1>4, <1>5
<1>7. QED
  <2> HIDE DEF G, m
  <2>1. (CHOOSE q \in p..last : ~(q \in G) /\ \A r \in p..(q - 1) : r \in G)
        = (CHOOSE q \in p..last : ~(b[q] # NUL) /\ \A r \in p..(q - 1) : b[r] # NUL)
    BY <1>6, Zenon
  <2>2. QED
    BY <1>3, <2>1 DEF Loop, m

\* A part of a sequence.
LEMMA PartFacts ==
    ASSUME NEW S, NEW s \in Seq(S), NEW a \in 1..Len(s), NEW m \in Nat, a + m - 1 =< Len(s)
    PROVE  /\ SubSeq(s, a, a + m - 1) \in Seq(S) /\ Len(SubSeq(s, a, a + m - 1)) = m
           /\ \A i \in 1..m : SubSeq(s, a, a + m - 1)[i] = s[a + i - 1]
<1> DEFINE b == a + m - 1
<1>1. Len(s) \in Nat /\ a \in Nat \ {0}
  OBVIOUS
<1>2. a \in 1..(Len(s) + 1) /\ b \in (a - 1)..Len(s) /\ b - a + 1 = m
  BY <1>1
<1> HIDE DEF b
<1>3. /\ SubSeq(s, a, b) \in Seq(S) /\ Len(SubSeq(s, a, b)) = b - a + 1
      /\ \A i \in 1..(b - a + 1) : SubSeq(s, a, b)[i] = s[a + i - 1]
  BY <1>2, SubSeqProperties
<1>4. QED
  BY <1>2, <1>3 DEF b

\* What a reader finds is the string.
LEMMA HeldIs ==
    ASSUME NEW b, NEW p, NEW t, Reads(b, p, t)
    PROVE  StringAt(b, p) = t
<1>1. /\ BufSize \in Nat \ {0} /\ p \in Nat \ {0} /\ Len(t) \in Nat /\ p + Len(t) \in p..BufSize
      /\ b \in Seq(Chars) /\ Len(b) = BufSize + 2
      /\ \A k \in p..(p + Len(t) - 1) : k - p + 1 \in 1..Len(t) /\ b[k] = t[k - p + 1]
  BY ReadsFacts
<1> DEFINE e == Loop(p, BufSize, LAMBDA k : b[k] # NUL)
<1>2. e = p + Len(t)
  <2>1. BufSize \in BufSize..(BufSize + 2)
    BY <1>1
  <2>2. QED
    BY <2>1, NulFound
<1>3. StringAt(b, p) = SubSeq(b, p, p + Len(t) - 1)
  <2>1. b[BufSize + 1] = Guard /\ b[BufSize + 2] = Guard
    BY DEF Reads, Array
  <2>2. \E k \in p..BufSize : b[k] = NUL
    BY <1>1 DEF Reads
  <2>3. StringAt(b, p) = SubSeq(b, p, e - 1)
    BY <2>1, <2>2, Zenon DEF StringAt
  <2> HIDE DEF e
  <2>4. e - 1 = p + Len(t) - 1
    BY <1>1, <1>2
  <2>5. QED
    BY <2>3, <2>4, Zenon
<1>4. /\ SubSeq(b, p, p + Len(t) - 1) \in Seq(Chars)
      /\ Len(SubSeq(b, p, p + Len(t) - 1)) = Len(t)
      /\ \A i \in 1..Len(t) : SubSeq(b, p, p + Len(t) - 1)[i] = b[p + i - 1]
  <2>1. p \in 1..Len(b) /\ p + Len(t) - 1 =< Len(b)
    BY <1>1
  <2>2. QED
    BY <1>1, <2>1, PartFacts
<1>5. t \in Seq(Chars)
  BY DEF Reads
<1>6. \A i \in 1..Len(t) : b[p + i - 1] = t[i]
  BY DEF Reads
<1>7. QED
  BY <1>3, <1>4, <1>5, <1>6, SeqEqual

\* Writing inside the array.
LEMMA PutInside ==
    ASSUME NEW b, Array(b), NEW q \in 1..BufSize, NEW w \in Seq(Chars), q + Len(w) =< BufSize + 1
    PROVE  /\ Array(Put(b, q, w))
           /\ \A i \in 1..Len(w) : Put(b, q, w)[q + i - 1] = w[i]
           /\ \A i \in 1..(BufSize + 2) : i < q \/ q + Len(w) =< i => Put(b, q, w)[i] = b[i]
<1>1. /\ BufSize \in Nat \ {0} /\ Len(w) \in Nat /\ q \in Nat /\ b \in Seq(Chars) /\ Len(b) = BufSize + 2
  BY BufAssumption DEF Array
<1>2. ASSUME NEW i \in 1..(BufSize + 2), i \in q..(q + Len(w) - 1)
      PROVE  i - q + 1 \in 1..Len(w) /\ w[i - q + 1] \in Chars
  <2>1. i - q + 1 \in 1..Len(w)
    BY <1>1, <1>2
  <2>2. QED
    BY <2>1
<1>3. Put(b, q, w) = [i \in 1..(BufSize + 2) |-> IF i \in q..(q + Len(w) - 1) THEN w[i - q + 1] ELSE b[i]]
  BY <1>1 DEF Put
<1>4. \A i \in 1..(BufSize + 2) : b[i] \in Chars
  BY <1>1
<1>5. Put(b, q, w) \in [1..(BufSize + 2) -> Chars]
  BY <1>2, <1>3, <1>4
<1>6. Put(b, q, w) \in Seq(Chars) /\ Len(Put(b, q, w)) = BufSize + 2
  BY <1>1, <1>5
<1>7. ASSUME NEW i \in 1..(BufSize + 2), i < q \/ q + Len(w) =< i
      PROVE  Put(b, q, w)[i] = b[i]
  <2>1. i \notin q..(q + Len(w) - 1)
    BY <1>1, <1>7
  <2>2. QED
    BY <1>3, <2>1
<1>8. ASSUME NEW i \in 1..Len(w)
      PROVE  Put(b, q, w)[q + i - 1] = w[i]
  <2>1. PICK j \in 1..(BufSize + 2) : j = q + i - 1 /\ j \in q..(q + Len(w) - 1) /\ j - q + 1 = i
    <3>1. q + i - 1 \in 1..(BufSize + 2) /\ q + i - 1 \in q..(q + Len(w) - 1) /\ (q + i - 1) - q + 1 = i
      BY <1>1
    <3>2. QED
      BY <3>1
  <2>2. Put(b, q, w)[j] = w[j - q + 1]
    BY <1>3, <2>1
  <2>3. QED
    BY <2>1, <2>2
<1>9. Put(b, q, w)[BufSize + 1] = Guard /\ Put(b, q, w)[BufSize + 2] = Guard
  <2>1. BufSize + 1 \in 1..(BufSize + 2) /\ BufSize + 2 \in 1..(BufSize + 2)
        /\ q + Len(w) =< BufSize + 1 /\ q + Len(w) =< BufSize + 2
    BY <1>1
  <2>2. QED
    BY <1>7, <2>1 DEF Array
<1>10. QED
  BY <1>6, <1>7, <1>8, <1>9 DEF Array

\* Writing t and a NUL behind s makes the string s \o t.
LEMMA WriteString ==
    ASSUME NEW b, Array(b), NEW s \in Seq(Chars \ {NUL}), Len(s) < BufSize,
           \A i \in 1..Len(s) : b[i] = s[i],
           NEW t \in Seq(Chars \ {NUL}), NEW w \in Seq(Chars), Len(t) < Len(w),
           Len(s) + Len(w) =< BufSize,
           \A i \in 1..Len(t) : w[i] = t[i],
           w[Len(t) + 1] = NUL
    PROVE  Reads(Put(b, Len(s) + 1, w), 1, s \o t)
<1> DEFINE c == Put(b, Len(s) + 1, w)
<1>1. BufSize \in Nat \ {0} /\ Len(s) \in Nat /\ Len(t) \in Nat /\ Len(w) \in Nat
  BY BufAssumption
<1>2. Len(s) + 1 \in 1..BufSize /\ (Len(s) + 1) + Len(w) =< BufSize + 1
  BY <1>1
<1>3. /\ Array(c) /\ \A i \in 1..Len(w) : c[(Len(s) + 1) + i - 1] = w[i]
      /\ \A i \in 1..(BufSize + 2) : i < Len(s) + 1 \/ (Len(s) + 1) + Len(w) =< i => c[i] = b[i]
  BY <1>2, PutInside
<1> HIDE DEF c
<1>4. /\ s \o t \in Seq(Chars \ {NUL}) /\ Len(s \o t) = Len(s) + Len(t)
      /\ \A i \in 1..(Len(s) + Len(t)) : (s \o t)[i] = IF i =< Len(s) THEN s[i] ELSE t[i - Len(s)]
  BY ConcatProperties
<1>5. ASSUME NEW i \in 1..Len(s \o t)
      PROVE  c[1 + i - 1] = (s \o t)[i]
  <2>1. 1 + i - 1 = i /\ i \in 1..(Len(s) + Len(t)) /\ i \in 1..(BufSize + 2)
    BY <1>1, <1>4
  <2>2. CASE i =< Len(s)
    <3>1. i \in 1..Len(s) /\ i < Len(s) + 1
      BY <1>1, <2>1, <2>2
    <3>2. QED
      BY <1>3, <1>4, <2>1, <2>2, <3>1
  <2>3. CASE ~(i =< Len(s))
    <3>1. i - Len(s) \in 1..Len(t) /\ i - Len(s) \in 1..Len(w) /\ (Len(s) + 1) + (i - Len(s)) - 1 = i
      BY <1>1, <2>1, <2>3
    <3>2. c[i] = w[i - Len(s)] /\ w[i - Len(s)] = t[i - Len(s)]
      BY <1>3, <3>1
    <3>3. QED
      BY <1>4, <2>1, <2>3, <3>2
  <2>4. QED
    BY <2>2, <2>3
<1>6. c[1 + Len(s \o t)] = NUL
  <2>1. Len(t) + 1 \in 1..Len(w) /\ (Len(s) + 1) + (Len(t) + 1) - 1 = 1 + Len(s \o t)
    BY <1>1, <1>4
  <2>2. QED
    BY <1>3, <2>1
<1>7. 1 \in 1..BufSize /\ 1 + Len(s \o t) =< BufSize
  BY <1>1, <1>4
<1>8. QED
  BY <1>3, <1>4, <1>5, <1>6, <1>7 DEF Reads, c

\* The part of a text that is kept behind the string s.
LEMMA KeptJoined ==
    ASSUME NEW s \in Seq(Chars \ {NUL}), NEW t \in Seq(Chars \ {NUL}), NEW m \in 0..Len(t),
           Len(s) + m < BufSize, m = Len(t) \/ Len(s) + m = BufSize - 1
    PROVE  Expected!Kept(s \o t) = s \o SubSeq(t, 1, m)
<1> DEFINE S == Chars \ {NUL}
           j == s \o t
           n == Len(s) + m
           u == SubSeq(t, 1, m)
<1>1. BufSize \in Nat \ {0} /\ Len(s) \in Nat /\ Len(t) \in Nat /\ m \in Nat /\ n \in Nat
  BY BufAssumption
<1>2. /\ j \in Seq(S) /\ Len(j) = Len(s) + Len(t)
      /\ \A i \in 1..(Len(s) + Len(t)) : j[i] = IF i =< Len(s) THEN s[i] ELSE t[i - Len(s)]
  BY ConcatProperties
<1>3. u \in Seq(S) /\ Len(u) = m /\ \A i \in 1..m : u[i] = t[i]
  BY <1>1
<1> HIDE DEF u
<1>4. /\ s \o u \in Seq(S) /\ Len(s \o u) = n
      /\ \A i \in 1..n : (s \o u)[i] = IF i =< Len(s) THEN s[i] ELSE u[i - Len(s)]
  BY <1>3, ConcatProperties
<1> HIDE DEF j, S
<1>5. n = IF Len(j) < BufSize THEN Len(j) ELSE BufSize - 1
  <2>1. Len(j) \in Nat /\ m =< Len(t) /\ n = Len(s) + m /\ Len(j) = Len(s) + Len(t)
    BY <1>1, <1>2
  <2>2. CASE Len(j) < BufSize
    <3>1. n = Len(j)
      BY <1>1, <2>1, <2>2
    <3>2. QED
      BY <2>2, <3>1
  <2>3. CASE ~(Len(j) < BufSize)
    <3>1. n = BufSize - 1
      BY <1>1, <2>1, <2>3
    <3>2. QED
      BY <2>3, <3>1
  <2>4. QED
    BY <2>2, <2>3
<1>6. n \in 0..Len(j)
  BY <1>1, <1>2
<1>7. Expected!Kept(j) = SubSeq(j, 1, n)
  BY <1>5 DEF Expected!Kept
<1> HIDE DEF n
<1>8. SubSeq(j, 1, n) \in Seq(S) /\ Len(SubSeq(j, 1, n)) = n /\ \A i \in 1..n : SubSeq(j, 1, n)[i] = j[i]
  BY <1>2, <1>6
<1>9. ASSUME NEW i \in 1..n
      PROVE  j[i] = (s \o u)[i]
  <2>1. i \in 1..(Len(s) + Len(t)) /\ (~(i =< Len(s)) => i - Len(s) \in 1..m)
    BY <1>1 DEF n
  <2>2. QED
    BY <1>2, <1>3, <1>4, <2>1
<1>10. SubSeq(j, 1, n) = s \o u
  BY <1>4, <1>8, <1>9, SeqEqual
<1>11. QED
  BY <1>7, <1>10 DEF j, u

\* Writing the characters that fit and a NUL, at the end of a string.
LEMMA WriteKept ==
    ASSUME NEW b, Array(b), NEW s \in Seq(Chars \ {NUL}), \A i \in 1..Len(s) : b[i] = s[i],
           NEW t \in Seq(Chars \ {NUL}), NEW m \in 0..Len(t),
           Len(s) + m < BufSize, m = Len(t) \/ Len(s) + m = BufSize - 1,
           NEW w \in Seq(Chars), m < Len(w), Len(s) + Len(w) =< BufSize,
           \A i \in 1..m : w[i] = t[i], w[m + 1] = NUL
    PROVE  Reads(Put(b, Len(s) + 1, w), 1, Expected!Kept(s \o t))
<1> DEFINE u == SubSeq(t, 1, m)
<1>1. BufSize \in Nat \ {0} /\ Len(s) \in Nat /\ Len(t) \in Nat /\ m \in Nat
  BY BufAssumption
<1>2. u \in Seq(Chars \ {NUL}) /\ Len(u) = m /\ \A i \in 1..m : u[i] = t[i]
  BY <1>1
<1>3. Expected!Kept(s \o t) = s \o u
  BY KeptJoined
<1> HIDE DEF u
<1>4. Len(s) < BufSize /\ Len(u) < Len(w) /\ \A i \in 1..Len(u) : w[i] = u[i]
  BY <1>1, <1>2
<1>5. w[Len(u) + 1] = NUL
  BY <1>2
<1>6. Reads(Put(b, Len(s) + 1, w), 1, s \o u)
  BY <1>2, <1>4, <1>5, WriteString
<1>7. QED
  BY <1>3, <1>6

\* The three ways of writing.
LEMMA WriteWhole ==
    ASSUME NEW b, Array(b), NEW s \in Seq(Chars \ {NUL}), \A i \in 1..Len(s) : b[i] = s[i],
           NEW t \in Seq(Chars \ {NUL}), NEW k \in Nat \ {0}, Len(s) + Len(t) + k =< BufSize
    PROVE  Reads(Put(b, Len(s) + 1, t \o Nuls(k)), 1, Expected!Kept(s \o t))
<1> DEFINE w == t \o Nuls(k)
<1>1. BufSize \in Nat \ {0} /\ Len(s) \in Nat /\ Len(t) \in Nat
  BY BufAssumption
<1>2. Nuls(k) \in Seq(Chars) /\ Len(Nuls(k)) = k /\ Nuls(k)[1] = NUL
  BY DEF Nuls, Chars, NUL
<1>3. /\ w \in Seq(Chars) /\ Len(w) = Len(t) + k
      /\ \A i \in 1..(Len(t) + k) : w[i] = IF i =< Len(t) THEN t[i] ELSE Nuls(k)[i - Len(t)]
  <2>1. t \in Seq(Chars)
    OBVIOUS
  <2>2. QED
    BY <1>2, <2>1, ConcatProperties
<1> HIDE DEF w
<1>4. \A i \in 1..Len(t) : w[i] = t[i]
  BY <1>1, <1>3
<1>5. w[Len(t) + 1] = NUL
  <2>1. Len(t) + 1 \in 1..(Len(t) + k) /\ ~(Len(t) + 1 =< Len(t)) /\ (Len(t) + 1) - Len(t) = 1
    BY <1>1
  <2>2. QED
    BY <1>2, <1>3, <2>1
<1>6. Len(t) \in 0..Len(t) /\ Len(s) + Len(t) < BufSize /\ Len(t) < Len(w) /\ Len(s) + Len(w) =< BufSize
  BY <1>1, <1>3
<1>7. Reads(Put(b, Len(s) + 1, w), 1, Expected!Kept(s \o t))
  BY <1>3, <1>4, <1>5, <1>6, WriteKept
<1>8. QED
  BY <1>7 DEF w

LEMMA WriteStart ==
    ASSUME NEW b, Array(b), NEW s \in Seq(Chars \ {NUL}), \A i \in 1..Len(s) : b[i] = s[i],
           NEW t \in Seq(Chars \ {NUL}), NEW m \in 0..Len(t),
           Len(s) + m < BufSize, m = Len(t) \/ Len(s) + m = BufSize - 1
    PROVE  Reads(Put(b, Len(s) + 1, Append(SubSeq(t, 1, m), NUL)), 1, Expected!Kept(s \o t))
<1> DEFINE u == SubSeq(t, 1, m)
           w == Append(u, NUL)
<1>1. BufSize \in Nat \ {0} /\ Len(s) \in Nat /\ Len(t) \in Nat /\ m \in Nat
  BY BufAssumption
<1>2. u \in Seq(Chars) /\ Len(u) = m /\ \A i \in 1..m : u[i] = t[i]
  BY <1>1
<1>3. NUL \in Chars
  BY DEF Chars, NUL
<1> HIDE DEF u
<1>4. w \in Seq(Chars) /\ Len(w) = m + 1 /\ w[m + 1] = NUL /\ \A i \in 1..m : w[i] = u[i]
  BY <1>2, <1>3
<1> HIDE DEF w
<1>5. m < Len(w) /\ Len(s) + Len(w) =< BufSize /\ \A i \in 1..m : w[i] = t[i]
  BY <1>1, <1>2, <1>4
<1>6. Reads(Put(b, Len(s) + 1, w), 1, Expected!Kept(s \o t))
  BY <1>4, <1>5, WriteKept
<1>7. QED
  BY <1>6 DEF w, u

LEMMA WriteAll ==
    ASSUME NEW b, Array(b), NEW s \in Seq(Chars \ {NUL}), \A i \in 1..Len(s) : b[i] = s[i],
           NEW t \in Seq(Chars \ {NUL}), Len(s) + Len(t) < BufSize
    PROVE  Reads(Put(b, Len(s) + 1, Append(t, NUL)), 1, Expected!Kept(s \o t))
<1>1. SubSeq(t, 1, Len(t)) = t /\ Len(t) \in 0..Len(t)
  OBVIOUS
<1>2. Reads(Put(b, Len(s) + 1, Append(SubSeq(t, 1, Len(t)), NUL)), 1, Expected!Kept(s \o t))
  BY <1>1, WriteStart
<1>3. QED
  BY <1>1, <1>2

\* strcpy, strncpy on a cleared array and strlcpy leave what fits of the text.
LEMMA CopyStep ==
    ASSUME BufInv, NEW t \in Pieces, CopyIn(t)
    PROVE  Reads(bytes', start', Expected!Kept(t))
<1> DEFINE e == <<>>
<1>1. BufSize \in Nat \ {0} /\ t \in Seq(Chars \ {NUL}) /\ Len(t) \in Nat
  BY BufAssumption
<1>2. Array(bytes) /\ start' = 1
  BY DEF BufInv, Reads, CopyIn
<1>3. e \in Seq(Chars \ {NUL}) /\ Len(e) = 0 /\ Len(e) + 1 = 1 /\ e \o t = t
  BY <1>1
<1>4. \A b : \A i \in 1..Len(e) : b[i] = e[i]
  BY <1>3
<1> HIDE DEF e
<1>5. CASE Len(t) < BufSize /\ bytes' = Strcpy(bytes, 1, t)
  <2>1. Len(e) + Len(t) < BufSize
    BY <1>1, <1>3, <1>5
  <2>2. Reads(Put(bytes, Len(e) + 1, Append(t, NUL)), 1, Expected!Kept(e \o t))
    BY <1>1, <1>2, <1>3, <1>4, <2>1, WriteAll
  <2>3. QED
    BY <1>2, <1>3, <1>5, <2>2 DEF Strcpy
<1>6. CASE bytes' = Strncpy(Put(bytes, 1, Nuls(BufSize)), 1, t, BufSize - 1)
  <2> DEFINE b == Put(bytes, 1, Nuls(BufSize))
  <2>1. Nuls(BufSize) \in Seq(Chars) /\ Len(Nuls(BufSize)) = BufSize /\ Nuls(BufSize)[BufSize] = NUL
    BY <1>1 DEF Nuls, Chars, NUL
  <2>2. 1 \in 1..BufSize /\ 1 + BufSize =< BufSize + 1 /\ BufSize \in 1..BufSize /\ 1 + BufSize - 1 = BufSize
    BY <1>1
  <2>3. Array(b) /\ \A i \in 1..BufSize : b[1 + i - 1] = Nuls(BufSize)[i]
    BY <1>2, <2>1, <2>2, PutInside
  <2>4. b[BufSize] = NUL
    BY <2>1, <2>2, <2>3
  <2>5. bytes' = Strncpy(b, 1, t, BufSize - 1)
    BY <1>6
  <2> HIDE DEF b
  <2>6. CASE Len(t) < BufSize - 1
    <3>1. PICK k \in Nat \ {0} : k = (BufSize - 1) - Len(t) + 1
      BY <1>1, <2>6
    <3>2. Len(e) + Len(t) + k =< BufSize
      <4>1. Len(t) + k = BufSize
        BY <1>1, <3>1
      <4>2. Len(e) + Len(t) = Len(t)
        BY <1>1, <1>3
      <4>3. QED
        BY <1>1, <4>1, <4>2
    <3>3. Reads(Put(b, Len(e) + 1, t \o Nuls(k)), 1, Expected!Kept(e \o t))
      BY <1>1, <1>3, <1>4, <2>3, <3>2, WriteWhole
    <3>4. bytes' = Put(b, 1, t \o Nuls(k))
      BY <2>5, <2>6, <3>1 DEF Strncpy
    <3>5. QED
      BY <1>2, <1>3, <3>3, <3>4
  <2>7. CASE ~(Len(t) < BufSize - 1)
    <3> DEFINE m == BufSize - 1
               u == SubSeq(t, 1, m)
    <3>1. m \in 0..Len(t) /\ m \in Nat /\ m < BufSize /\ Len(e) + m < BufSize /\ Len(e) + m = BufSize - 1
      BY <1>1, <1>3, <2>7
    <3>2. Expected!Kept(e \o t) = e \o u
      BY <1>1, <1>3, <3>1, KeptJoined
    <3>3. u \in Seq(Chars \ {NUL}) /\ u \in Seq(Chars) /\ Len(u) = m
      BY <1>1, <3>1
    <3>4. bytes' = Put(b, 1, u)
      BY <2>5, <2>7 DEF Strncpy
    <3> HIDE DEF u
    <3>5. Expected!Kept(t) = u
      <4>1. e \o u = u
        BY <3>3 DEF e
      <4>2. QED
        BY <1>3, <3>2, <4>1
    <3>6. 1 + Len(u) =< BufSize + 1 /\ 1 + Len(u) =< BufSize /\ BufSize \in 1..(BufSize + 2) /\ 1 + Len(u) = BufSize
      BY <1>1, <3>1, <3>3
    <3>7. /\ Array(Put(b, 1, u)) /\ \A i \in 1..Len(u) : Put(b, 1, u)[1 + i - 1] = u[i]
          /\ \A i \in 1..(BufSize + 2) : i < 1 \/ 1 + Len(u) =< i => Put(b, 1, u)[i] = b[i]
      BY <2>2, <2>3, <3>3, <3>6, PutInside
    <3>8. Put(b, 1, u)[1 + Len(u)] = NUL
      BY <2>4, <3>6, <3>7
    <3>9. QED
      BY <1>2, <2>2, <3>3, <3>4, <3>5, <3>6, <3>7, <3>8 DEF Reads
  <2>8. QED
    BY <2>6, <2>7
<1>7. CASE bytes' = Strlcpy(bytes, 1, t, BufSize)
  <2>1. PICK m \in 0..Len(t) : m = Min2(Len(t), BufSize - 1)
    BY <1>1 DEF Min2
  <2>2. Len(e) + m < BufSize /\ (m = Len(t) \/ Len(e) + m = BufSize - 1)
    <3>1. Len(e) + m = m
      BY <1>3
    <3>2. m < BufSize /\ (m = Len(t) \/ m = BufSize - 1)
      BY <1>1, <2>1 DEF Min2
    <3>3. QED
      BY <3>1, <3>2
  <2>3. Reads(Put(bytes, Len(e) + 1, Append(SubSeq(t, 1, m), NUL)), 1, Expected!Kept(e \o t))
    BY <1>1, <1>2, <1>3, <1>4, <2>2, WriteStart
  <2>4. bytes' = Put(bytes, 1, Append(SubSeq(t, 1, m), NUL))
    BY <1>1, <1>7, <2>1 DEF Strlcpy
  <2>5. QED
    BY <1>2, <1>3, <2>3, <2>4
<1>8. QED
  BY <1>5, <1>6, <1>7 DEF CopyIn

\* strnlen finds the NUL before the limit.
LEMMA NulInside ==
    ASSUME NEW b, NEW t, Reads(b, 1, t)
    PROVE  Loop(1, BufSize + 2, LAMBDA k : b[k] # NUL /\ k =< BufSize) = 1 + Len(t)
<1> DEFINE G == {k \in Int : b[k] # NUL /\ k =< BufSize}
           last == BufSize + 2
           m == 1 + Len(t)
<1>1. BufSize \in Nat /\ Len(t) \in Nat /\ m \in 1..last /\ last \in Nat /\ m =< BufSize
  BY ReadsFacts
<1>2. m \notin G /\ \A r \in 1..(m - 1) : r \in G
  <2>1. b[m] = NUL
    BY DEF Reads
  <2>2. \A r \in 1..(m - 1) : r \in Int /\ b[r] # NUL /\ r =< BufSize
    <3>1. \A r \in 1..(1 + Len(t) - 1) : b[r] # NUL
      BY ReadsFacts
    <3>2. QED
      BY <1>1, <3>1
  <2>3. QED
    BY <2>1, <2>2
<1>3. m = CHOOSE q \in 1..last : ~(q \in G) /\ \A r \in 1..(q - 1) : r \in G
  <2> HIDE DEF G, m, last
  <2>1. QED
    BY <1>1, <1>2, StopsAt
<1>4. \A q \in 1..last : q \in G <=> b[q] # NUL /\ q =< BufSize
  BY <1>1
<1>5. \A q \in 1..last : \A r \in 1..(q - 1) : r \in G <=> b[r] # NUL /\ r =< BufSize
  BY <1>1
<1>6. \A q \in 1..last : (~(q \in G) /\ \A r \in 1..(q - 1) : r \in G)
         <=> (~(b[q] # NUL /\ q =< BufSize) /\ \A r \in 1..(q - 1) : b[r] # NUL /\ r =< BufSize)
  <2> HIDE DEF G
  <2>1. QED
    BY <1>4, <1>5
<1>7. QED
  <2> HIDE DEF G, m
  <2>1. (CHOOSE q \in 1..last : ~(q \in G) /\ \A r \in 1..(q - 1) : r \in G)
        = (CHOOSE q \in 1..last : ~(b[q] # NUL /\ q =< BufSize) /\ \A r \in 1..(q - 1) : b[r] # NUL /\ r =< BufSize)
    BY <1>6, Zenon
  <2>2. QED
    BY <1>3, <2>1 DEF Loop, m

\* strcat, strncat and strlcat put behind the string what fits of the text.
LEMMA AppendStep ==
    ASSUME NEW s, Reads(bytes, start, s), NEW t \in Pieces, AppendTo(t)
    PROVE  Reads(bytes', start', Expected!Kept(s \o t))
<1>1. start = 1 /\ start' = 1 /\ Reads(bytes, 1, s)
  BY DEF AppendTo
<1>2. BufSize \in Nat \ {0} /\ t \in Seq(Chars \ {NUL}) /\ Len(t) \in Nat
  BY BufAssumption
<1>3. /\ s \in Seq(Chars \ {NUL}) /\ Len(s) \in Nat /\ Len(s) < BufSize /\ Array(bytes)
      /\ Len(bytes) = BufSize + 2
  BY <1>1, <1>2 DEF Reads, Array
<1>4. \A i \in 1..Len(s) : bytes[i] = s[i]
  <2>1. \A i \in 1..Len(s) : bytes[1 + i - 1] = s[i] /\ 1 + i - 1 = i
    BY <1>1, <1>3 DEF Reads
  <2>2. QED
    BY <2>1
<1>5. Strlen(bytes) = Len(s)
  <2>1. BufSize + 2 \in BufSize..(BufSize + 2)
    BY <1>2
  <2> DEFINE e == Loop(1, BufSize + 2, LAMBDA k : bytes[k] # NUL)
  <2>2. e = 1 + Len(s)
    BY <1>1, <2>1, NulFound
  <2>3. Strlen(bytes) = e - 1
    BY <1>3, Zenon DEF Strlen
  <2> HIDE DEF e
  <2>4. QED
    BY <1>3, <2>2, <2>3
<1>6. Strnlen(bytes, BufSize) = Len(s)
  <2> DEFINE e == Loop(1, BufSize + 2, LAMBDA k : bytes[k] # NUL /\ k =< BufSize)
  <2>1. e = 1 + Len(s)
    BY <1>1, NulInside
  <2>2. Strnlen(bytes, BufSize) = e - 1
    BY <1>3, Zenon DEF Strnlen
  <2> HIDE DEF e
  <2>3. QED
    BY <1>3, <2>1, <2>2
<1>7. CASE Held + Len(t) < BufSize /\ bytes' = Strcat(bytes, t)
  <2>1. bytes' = Put(bytes, Len(s) + 1, Append(t, NUL)) /\ Len(s) + Len(t) < BufSize
    BY <1>5, <1>7 DEF Strcat, Strcpy, Held
  <2>2. QED
    BY <1>1, <1>2, <1>3, <1>4, <2>1, WriteAll
<1>8. CASE bytes' = Strncat(bytes, t, BufSize - Held - 1)
  <2>1. PICK n \in Nat : n = BufSize - Len(s) - 1
    <3>1. BufSize - Len(s) - 1 \in Nat
      BY <1>2, <1>3
    <3>2. QED
      BY <3>1
  <2>2. bytes' = Strncat(bytes, t, n)
    BY <1>5, <1>8, <2>1 DEF Held
  <2>3. CASE Len(t) < n
    <3>1. bytes' = Put(bytes, Len(s) + 1, t \o Nuls(2))
      BY <1>5, <2>2, <2>3 DEF Strncat
    <3>2. 2 \in Nat \ {0} /\ Len(s) + Len(t) + 2 =< BufSize
      BY <1>2, <1>3, <2>1, <2>3
    <3>3. QED
      BY <1>1, <1>2, <1>3, <1>4, <3>1, <3>2, WriteWhole
  <2>4. CASE ~(Len(t) < n)
    <3>1. bytes' = Put(bytes, Len(s) + 1, Append(SubSeq(t, 1, n), NUL))
      BY <1>5, <2>2, <2>4 DEF Strncat
    <3>2. n \in 0..Len(t) /\ Len(s) + n < BufSize /\ Len(s) + n = BufSize - 1
      BY <1>2, <1>3, <2>1, <2>4
    <3>3. QED
      BY <1>1, <1>2, <1>3, <1>4, <3>1, <3>2, WriteStart
  <2>5. QED
    BY <2>3, <2>4
<1>9. CASE bytes' = Strlcat(bytes, t, BufSize)
  <2>1. PICK room \in Nat \ {0} : room = BufSize - Len(s)
    BY <1>2, <1>3
  <2>2. bytes' = Strlcpy(bytes, Len(s) + 1, t, room)
    BY <1>2, <1>3, <1>6, <1>9, <2>1 DEF Strlcat
  <2>3. PICK m \in 0..Len(t) : m = Min2(Len(t), room - 1)
    BY <1>2, <2>1 DEF Min2
  <2>4. Len(s) + m < BufSize /\ (m = Len(t) \/ Len(s) + m = BufSize - 1)
    BY <1>2, <1>3, <2>1, <2>3 DEF Min2
  <2>5. bytes' = Put(bytes, Len(s) + 1, Append(SubSeq(t, 1, m), NUL))
    BY <2>1, <2>2, <2>3 DEF Strlcpy
  <2>6. QED
    BY <1>1, <1>2, <1>3, <1>4, <2>4, <2>5, WriteStart
<1>10. QED
  BY <1>7, <1>8, <1>9 DEF AppendTo

\* Both modules use the table of Ctype.
LEMMA SameSpace == \A c : Isspace(c) <=> Expected!Isspace(c)
BY Zenon DEF Isspace, Is, ctype_table, Chars,
       Expected!Isspace, Expected!Is, Expected!ctype_table, Expected!Chars

\* A NUL behind the first k characters cuts a string off.
LEMMA CutAt ==
    ASSUME NEW b, NEW p, NEW s, Reads(b, p, s), NEW k \in 0..Len(s)
    PROVE  Reads([b EXCEPT ![p + k] = NUL], p, SubSeq(s, 1, k))
<1> DEFINE c == [b EXCEPT ![p + k] = NUL]
           u == SubSeq(s, 1, k)
<1>1. /\ BufSize \in Nat \ {0} /\ p \in 1..BufSize /\ Len(s) \in Nat /\ p + Len(s) =< BufSize /\ k \in Nat
      /\ s \in Seq(Chars \ {NUL}) /\ b \in Seq(Chars) /\ Len(b) = BufSize + 2
      /\ b[BufSize + 1] = Guard /\ b[BufSize + 2] = Guard /\ p \in Nat
  BY BufAssumption DEF Reads, Array
<1>2. u \in Seq(Chars \ {NUL}) /\ Len(u) = k /\ \A i \in 1..k : u[i] = s[i]
  BY <1>1
<1>3. NUL \in Chars /\ p + k \in 1..BufSize /\ p + k \in 1..Len(b)
  BY <1>1 DEF Chars, NUL
<1>4. c \in Seq(Chars) /\ Len(c) = BufSize + 2 /\ c[p + k] = NUL
      /\ \A i \in 1..(BufSize + 2) : i # p + k => c[i] = b[i]
  BY <1>1, <1>3, ExceptSeq
<1> HIDE DEF c, u
<1>5. Array(c)
  <2>1. /\ BufSize + 1 \in 1..(BufSize + 2) /\ BufSize + 2 \in 1..(BufSize + 2)
        /\ BufSize + 1 # p + k /\ BufSize + 2 # p + k
    BY <1>1, <1>3
  <2>2. QED
    BY <1>1, <1>4, <2>1 DEF Array
<1>6. \A i \in 1..k : c[p + i - 1] = u[i]
  <2>1. ASSUME NEW i \in 1..k
        PROVE  c[p + i - 1] = u[i]
    <3>1. p + i - 1 \in 1..(BufSize + 2) /\ p + i - 1 # p + k /\ i \in 1..Len(s)
      BY <1>1
    <3>2. c[p + i - 1] = b[p + i - 1]
      BY <1>4, <3>1
    <3>3. QED
      BY <1>2, <3>1, <3>2 DEF Reads
  <2>2. QED
    BY <2>1
<1>7. Reads(c, p, u)
  BY <1>1, <1>2, <1>3, <1>4, <1>5, <1>6 DEF Reads
<1>8. QED
  BY <1>7 DEF c, u

\* strrtrim keeps what ends with the last character that is not blank, and
\* the first character.
LEMMA TrimRight ==
    ASSUME NEW b, NEW p, NEW s, Reads(b, p, s)
    PROVE  \E k \in 0..Len(s) :
              /\ Reads(Strrtrim(b, p), p, SubSeq(s, 1, k))
              /\ \A i \in SolidIn(s) : i =< k
              /\ k \in SolidIn(s) \/ k = 1 \/ s = <<>>
              /\ SolidIn(s) # {} => k \in SolidIn(s)
<1> DEFINE nul == Loop(p, Len(b), LAMBDA k : b[k] # NUL)
           P(e) == /\ e = p \/ ~Isspace(b[e])
                   /\ \A i \in (e + 1)..(nul - 1) : Isspace(b[i])
           end == CHOOSE e \in p..(nul - 1) : P(e)
<1>1. /\ BufSize \in Nat \ {0} /\ p \in Nat \ {0} /\ Len(s) \in Nat /\ p + Len(s) \in p..BufSize
      /\ b \in Seq(Chars) /\ Len(b) = BufSize + 2 /\ s \in Seq(Chars \ {NUL})
      /\ \A k \in p..(p + Len(s) - 1) : k - p + 1 \in 1..Len(s) /\ b[k] = s[k - p + 1]
      /\ \A i \in 1..Len(s) : b[p + i - 1] = s[i]
  <2>1. s \in Seq(Chars \ {NUL}) /\ \A i \in 1..Len(s) : b[p + i - 1] = s[i]
    BY DEF Reads
  <2>2. QED
    BY <2>1, ReadsFacts
<1>2. nul = p + Len(s)
  <2>1. BufSize + 2 \in BufSize..(BufSize + 2)
    BY <1>1
  <2>2. Loop(p, BufSize + 2, LAMBDA k : b[k] # NUL) = p + Len(s)
    BY <2>1, NulFound
  <2>3. QED
    BY <1>1, <2>2
<1>3. Strrtrim(b, p) = IF nul = p THEN b ELSE [b EXCEPT ![end + 1] = NUL]
  BY Zenon DEF Strrtrim
<1> HIDE DEF nul
<1>4. CASE Len(s) = 0
  <2>1. s = <<>> /\ SubSeq(s, 1, 0) = s /\ SolidIn(s) = {}
    BY <1>1, <1>4 DEF SolidIn
  <2>2. Strrtrim(b, p) = b
    BY <1>1, <1>2, <1>3, <1>4
  <2>3. 0 \in 0..Len(s) /\ Reads(Strrtrim(b, p), p, SubSeq(s, 1, 0))
    <3>1. 0 \in 0..Len(s)
      BY <1>1
    <3>2. QED
      BY <2>1, <2>2, <3>1, Zenon
  <2>4. \A i \in SolidIn(s) : i =< 0
    BY <2>1
  <2>5. QED
    BY <2>1, <2>3, <2>4
<1>5. CASE Len(s) # 0
  <2> DEFINE E == {e \in p..(nul - 1) : \A i \in (e + 1)..(nul - 1) : Isspace(b[i])}
  <2>1. nul - 1 \in E /\ E \in SUBSET Nat
    BY <1>1, <1>2, <1>5
  <2>2. PICK l \in E : \A q \in E : l =< q
    BY <2>1, LeastExists
  <2>3. P(l) /\ l \in p..(nul - 1)
    <3>1. ASSUME l # p, Isspace(b[l])
          PROVE  FALSE
      <4>1. l - 1 \in p..(nul - 1) /\ ~(l =< l - 1)
        BY <1>1, <1>2, <2>2, <3>1
      <4>2. ASSUME NEW i \in ((l - 1) + 1)..(nul - 1)
            PROVE  Isspace(b[i])
        <5>1. i = l \/ i \in (l + 1)..(nul - 1)
          BY <1>1, <1>2, <2>2
        <5>2. QED
          BY <2>2, <3>1, <5>1
      <4>3. l - 1 \in E
        BY <4>1, <4>2
      <4>4. QED
        BY <2>2, <4>1, <4>3
    <3>2. QED
      BY <2>2, <3>1
  <2>4. end \in p..(nul - 1) /\ P(end)
    <3> HIDE DEF P
    <3>1. QED
      BY <2>3
  <2> HIDE DEF end, E
  <2>5. PICK k \in 1..Len(s) : k = end - p + 1 /\ end + 1 = p + k /\ end = p + k - 1
    <3>1. end - p + 1 \in 1..Len(s) /\ end + 1 = p + (end - p + 1) /\ end = p + (end - p + 1) - 1
      BY <1>1, <1>2, <2>4
    <3>2. QED
      BY <3>1
  <2>6. Strrtrim(b, p) = [b EXCEPT ![p + k] = NUL]
    <3>1. nul # p
      BY <1>1, <1>2, <1>5
    <3>2. QED
      BY <1>3, <2>5, <3>1
  <2>7. k \in 0..Len(s) /\ Reads(Strrtrim(b, p), p, SubSeq(s, 1, k))
    <3>1. k \in 0..Len(s)
      BY <1>1
    <3>2. Reads([b EXCEPT ![p + k] = NUL], p, SubSeq(s, 1, k))
      BY <3>1, CutAt
    <3>3. QED
      BY <2>6, <3>1, <3>2
  <2>8. b[end] = s[k]
    BY <1>1, <2>5
  <2>9. k \in SolidIn(s) \/ k = 1
    <3>1. CASE end = p
      BY <1>1, <2>5, <3>1
    <3>2. CASE ~Isspace(b[end])
      BY <2>8, <3>2 DEF SolidIn
    <3>3. QED
      BY <2>4, <3>1, <3>2
  <2>10. ASSUME NEW i \in SolidIn(s)
         PROVE  i =< k
    <3>1. SUFFICES ASSUME k < i PROVE FALSE
      BY DEF SolidIn
    <3>2. i \in 1..Len(s) /\ ~Isspace(s[i])
      BY DEF SolidIn
    <3>3. p + i - 1 \in (end + 1)..(nul - 1)
      BY <1>1, <1>2, <2>5, <3>1, <3>2
    <3>4. b[p + i - 1] = s[i]
      BY <1>1, <3>2
    <3>5. QED
      BY <2>4, <3>2, <3>3, <3>4
  <2>11. ASSUME SolidIn(s) # {}
         PROVE  k \in SolidIn(s)
    <3>1. PICK i \in SolidIn(s) : TRUE
      BY <2>11
    <3>2. i =< k /\ i \in 1..Len(s)
      BY <2>10 DEF SolidIn
    <3>3. CASE k = 1
      <4>1. i = k
        BY <3>2, <3>3
      <4>2. QED
        BY <4>1
    <3>4. QED
      BY <2>9, <3>3
  <2>12. QED
    BY <2>7, <2>9, <2>10, <2>11
<1>6. QED
  BY <1>4, <1>5

\* strltrim goes to the first character that is not blank, or to the NUL.
LEMMA TrimLeft ==
    ASSUME NEW b, NEW p, NEW s, Reads(b, p, s)
    PROVE  \E j \in 1..(Len(s) + 1) :
              /\ Strltrim(b, p) = p + j - 1
              /\ Reads(b, p + j - 1, SubSeq(s, j, Len(s)))
              /\ \A i \in SolidIn(s) : j =< i
              /\ j \in SolidIn(s) \/ j = Len(s) + 1
<1> DEFINE G(q) == b[q] # NUL /\ Isspace(b[q])
           P(q) == ~G(q) /\ \A r \in p..(q - 1) : G(r)
           c == CHOOSE q \in p..Len(b) : P(q)
           D == {q \in p..Len(b) : ~G(q)}
           nul == p + Len(s)
<1>1. /\ BufSize \in Nat \ {0} /\ p \in Nat \ {0} /\ Len(s) \in Nat /\ nul \in p..BufSize /\ nul \in Nat
      /\ b \in Seq(Chars) /\ Len(b) = BufSize + 2 /\ s \in Seq(Chars \ {NUL}) /\ b[nul] = NUL
      /\ \A k \in p..(nul - 1) : k - p + 1 \in 1..Len(s) /\ b[k] = s[k - p + 1] /\ b[k] # NUL
      /\ \A i \in 1..Len(s) : b[p + i - 1] = s[i]
  <2>1. s \in Seq(Chars \ {NUL}) /\ b[nul] = NUL /\ \A i \in 1..Len(s) : b[p + i - 1] = s[i]
    BY DEF Reads
  <2>2. /\ BufSize \in Nat \ {0} /\ p \in Nat \ {0} /\ Len(s) \in Nat /\ nul \in p..BufSize
        /\ b \in Seq(Chars) /\ Len(b) = BufSize + 2
        /\ \A k \in p..(nul - 1) : k - p + 1 \in 1..Len(s) /\ b[k] = s[k - p + 1] /\ b[k] # NUL
    BY ReadsFacts
  <2> HIDE DEF nul
  <2>3. nul \in Nat
    BY <2>2
  <2>4. QED
    BY <2>1, <2>2, <2>3
<1> HIDE DEF nul
<1>2. nul \in D /\ D \in SUBSET Nat
  BY <1>1
<1>3. PICK l \in D : \A q \in D : l =< q
  BY <1>2, LeastExists
<1>4. l \in p..Len(b) /\ P(l)
  <2>1. ASSUME NEW r \in p..(l - 1)
        PROVE  G(r)
    <3>1. r \in p..Len(b) /\ ~(l =< r)
      BY <1>1, <1>3
    <3>2. QED
      BY <1>3, <3>1
  <2>2. QED
    BY <1>3, <2>1
<1>5. c \in p..Len(b) /\ P(c)
  <2> HIDE DEF P
  <2>1. QED
    BY <1>4
<1>6. Strltrim(b, p) = c
  BY Zenon DEF Strltrim, Loop
<1> HIDE DEF c, D
<1>7. c =< nul
  <2>1. SUFFICES ASSUME nul < c PROVE FALSE
    BY <1>1, <1>5
  <2>2. nul \in p..(c - 1)
    BY <1>1, <1>5, <2>1
  <2>3. QED
    BY <1>1, <1>5, <2>2
<1>8. PICK j \in 1..(Len(s) + 1) : c = p + j - 1
  <2>1. c - p + 1 \in 1..(Len(s) + 1) /\ c = p + (c - p + 1) - 1
    BY <1>1, <1>5, <1>7 DEF nul
  <2>2. QED
    BY <2>1
<1>9. ASSUME NEW i \in SolidIn(s)
      PROVE  j =< i
  <2>1. i \in 1..Len(s) /\ ~Isspace(s[i])
    BY DEF SolidIn
  <2>2. SUFFICES ASSUME i < j PROVE FALSE
    BY <2>1
  <2>3. p + i - 1 \in p..(c - 1)
    BY <1>1, <1>8, <2>1, <2>2
  <2>4. QED
    BY <1>1, <1>5, <2>1, <2>3
<1>10. j \in SolidIn(s) \/ j = Len(s) + 1
  <2>1. CASE j \in 1..Len(s)
    <3>1. c \in p..(nul - 1) /\ b[c] = s[j]
      BY <1>1, <1>8, <2>1 DEF nul
    <3>2. ~Isspace(s[j])
      BY <1>1, <1>5, <3>1
    <3>3. QED
      BY <2>1, <3>2 DEF SolidIn
  <2>2. QED
    BY <1>1, <2>1
<1>11. Reads(b, c, SubSeq(s, j, Len(s)))
  <2> DEFINE u == SubSeq(s, j, Len(s))
             m == Len(s) - j + 1
  <2>1. m \in Nat
    BY <1>1
  <2>2. u \in Seq(Chars \ {NUL}) /\ Len(u) = m /\ \A i \in 1..m : u[i] = s[j + i - 1]
    BY <1>1
  <2> HIDE DEF u
  <2>3. c \in 1..BufSize /\ c + m = nul /\ c + m =< BufSize
    BY <1>1, <1>5, <1>7, <1>8 DEF nul
  <2>4. ASSUME NEW i \in 1..m
        PROVE  b[c + i - 1] = u[i]
    <3>1. j + i - 1 \in 1..Len(s) /\ c + i - 1 = p + (j + i - 1) - 1
      BY <1>1, <1>8
    <3>2. QED
      BY <1>1, <2>2, <3>1
  <2>5. Reads(b, c, u)
    BY <1>1, <2>1, <2>2, <2>3, <2>4 DEF Reads
  <2>6. QED
    BY <2>5 DEF u
<1>12. QED
  BY <1>6, <1>8, <1>9, <1>10, <1>11

\* Both trims drop the blanks they should, of the string a reader finds.
LEMMA TrimStep ==
    ASSUME NEW s, Reads(bytes, start, s), TrimIt, heldString = s,
           \A u : Reads(bytes', start', u) => heldString' = u
    PROVE  BufInv' /\ (Expected!TrimEnd \/ Expected!Trim)
<1>1. Expected!Solid = SolidIn(s)
  BY SameSpace, Zenon DEF Expected!Solid, SolidIn
<1>2. s \in Seq(Chars \ {NUL}) /\ Len(s) \in Nat
  BY DEF Reads
<1>3. CASE bytes' = Strrtrim(bytes, start) /\ start' = start
  <2>1. PICK k \in 0..Len(s) :
              /\ Reads(Strrtrim(bytes, start), start, SubSeq(s, 1, k))
              /\ \A i \in SolidIn(s) : i =< k
              /\ k \in SolidIn(s) \/ k = 1 \/ s = <<>>
              /\ SolidIn(s) # {} => k \in SolidIn(s)
    BY TrimRight
  <2>2. Reads(bytes', start', SubSeq(s, 1, k))
    BY <1>3, <2>1
  <2>3. heldString' = SubSeq(s, 1, k)
    BY <2>2
  <2>4. Expected!TrimEnd
    BY <1>1, <2>1, <2>3 DEF Expected!TrimEnd
  <2>5. QED
    BY <2>2, <2>4 DEF BufInv
<1>4. CASE start' = Strltrim(bytes, start) /\ bytes' = Strrtrim(bytes, start')
  <2>1. PICK j \in 1..(Len(s) + 1) :
              /\ Strltrim(bytes, start) = start + j - 1
              /\ Reads(bytes, start + j - 1, SubSeq(s, j, Len(s)))
              /\ \A i \in SolidIn(s) : j =< i
              /\ j \in SolidIn(s) \/ j = Len(s) + 1
    BY TrimLeft
  <2> DEFINE u == SubSeq(s, j, Len(s))
             n == Len(s) - j + 1
  <2>2. u \in Seq(Chars \ {NUL}) /\ Len(u) = n /\ n \in Nat /\ \A i \in 1..n : u[i] = s[j + i - 1]
    BY <1>2
  <2>3. Reads(bytes, start', u)
    BY <1>4, <2>1
  <2> HIDE DEF u
  <2>4. PICK k \in 0..Len(u) :
              /\ Reads(Strrtrim(bytes, start'), start', SubSeq(u, 1, k))
              /\ \A i \in SolidIn(u) : i =< k
              /\ SolidIn(u) # {} => k \in SolidIn(u)
    BY <2>3, TrimRight
  <2>5. Reads(bytes', start', SubSeq(u, 1, k))
    BY <1>4, <2>4
  <2>6. heldString' = SubSeq(u, 1, k)
    BY <2>5
  <2>7. BufInv'
    BY <2>5 DEF BufInv
  <2>8. CASE SolidIn(s) = {}
    <3>1. j = Len(s) + 1
      BY <2>1, <2>8
    <3>2. n = 0 /\ k = 0
      BY <1>2, <2>2, <3>1
    <3>3. SubSeq(u, 1, k) = <<>>
      BY <2>2, <3>2
    <3>4. QED
      BY <1>1, <2>6, <2>7, <2>8, <3>3 DEF Expected!Trim
  <2>9. CASE SolidIn(s) # {}
    <3>1. j \in SolidIn(s) /\ j \in 1..Len(s) /\ ~Isspace(s[j])
      <4>1. PICK i \in SolidIn(s) : TRUE
        BY <2>9
      <4>2. j =< i /\ i \in 1..Len(s)
        BY <2>1 DEF SolidIn
      <4>3. j # Len(s) + 1
        BY <1>2, <4>2
      <4>4. QED
        BY <2>1, <4>3 DEF SolidIn
    <3>2. 1 \in SolidIn(u)
      <4>1. 1 \in 1..n /\ j + 1 - 1 = j
        BY <1>2, <3>1
      <4>2. u[1] = s[j]
        BY <2>2, <4>1
      <4>3. QED
        BY <2>2, <3>1, <4>1, <4>2 DEF SolidIn
    <3>3. k \in 1..n /\ ~Isspace(u[k])
      BY <2>2, <2>4, <3>2 DEF SolidIn
    <3>4. PICK e \in 1..Len(s) : e = j + k - 1 /\ j =< e /\ ~Isspace(s[e])
      <4>1. j + k - 1 \in 1..Len(s) /\ j =< j + k - 1
        BY <1>2, <3>1, <3>3
      <4>2. u[k] = s[j + k - 1]
        BY <2>2, <3>3
      <4>3. QED
        BY <3>3, <4>1, <4>2
    <3>5. e \in SolidIn(s)
      BY <3>4 DEF SolidIn
    <3>6. ASSUME NEW i \in SolidIn(s)
          PROVE  i \in j..e
      <4>1. i \in 1..Len(s) /\ ~Isspace(s[i]) /\ j =< i
        BY <2>1 DEF SolidIn
      <4>2. i - j + 1 \in 1..n /\ j + (i - j + 1) - 1 = i
        BY <1>2, <3>1, <4>1
      <4>3. u[i - j + 1] = s[i]
        BY <2>2, <4>2
      <4>4. i - j + 1 \in SolidIn(u)
        BY <2>2, <4>1, <4>2, <4>3 DEF SolidIn
      <4>5. i - j + 1 =< k
        BY <2>4, <4>4
      <4>6. QED
        BY <1>2, <3>1, <3>3, <3>4, <4>1, <4>5
    <3>7. SubSeq(u, 1, k) = SubSeq(s, j, e)
      <4>1. /\ SubSeq(u, 1, k) \in Seq(Chars \ {NUL}) /\ Len(SubSeq(u, 1, k)) = k
            /\ \A i \in 1..k : SubSeq(u, 1, k)[i] = u[i]
        BY <2>2, <3>3
      <4>2. k \in Nat /\ e - j + 1 = k
        BY <3>1, <3>3, <3>4
      <4>3. /\ SubSeq(s, j, e) \in Seq(Chars \ {NUL}) /\ Len(SubSeq(s, j, e)) = k
            /\ \A i \in 1..k : SubSeq(s, j, e)[i] = s[j + i - 1]
        BY <1>2, <3>1, <3>4, <4>2
      <4>4. \A i \in 1..k : i \in 1..n
        BY <2>2, <3>3
      <4>5. \A i \in 1..k : SubSeq(u, 1, k)[i] = SubSeq(s, j, e)[i]
        BY <2>2, <4>1, <4>3, <4>4
      <4>6. QED
        BY <4>1, <4>3, <4>5, SeqEqual
    <3>8. heldString' = SubSeq(s, j, e) /\ SolidIn(s) \subseteq j..e
      BY <2>6, <3>6, <3>7
    <3>9. Expected!Trim
      BY <1>1, <3>1, <3>5, <3>8 DEF Expected!Trim
    <3>10. QED
      BY <2>7, <3>9
  <2>10. QED
    BY <2>8, <2>9
<1>5. QED
  BY <1>3, <1>4 DEF TrimIt

\* A step of the buffer is a step of the string, and keeps it readable.
LEMMA BufferStep ==
    ASSUME BufInv, [Next]_vars
    PROVE  BufInv' /\ [Expected!Copy \/ Expected!Extend \/ Expected!TrimEnd \/ Expected!Trim]_heldString
<1>1. PICK s : Reads(bytes, start, s)
  BY DEF BufInv
<1>2. heldString = s
  BY <1>1, HeldIs DEF heldString
<1>3. \A u : Reads(bytes', start', u) => heldString' = u
  BY HeldIs DEF heldString
<1>4. CASE UNCHANGED <<bytes, start>>
  BY <1>4 DEF BufInv, heldString
<1>5. ASSUME NEW t \in Pieces, CopyIn(t)
      PROVE  BufInv' /\ Expected!Copy
  <2>1. Reads(bytes', start', Expected!Kept(t))
    BY <1>5, CopyStep
  <2>2. heldString' = Expected!Kept(t)
    BY <1>3, <2>1
  <2>3. QED
    BY <2>1, <2>2 DEF BufInv, Expected!Copy
<1>6. ASSUME NEW t \in Pieces, AppendTo(t)
      PROVE  BufInv' /\ Expected!Extend
  <2>1. Reads(bytes', start', Expected!Kept(s \o t))
    BY <1>1, <1>6, AppendStep
  <2>2. heldString' = Expected!Kept(heldString \o t)
    BY <1>2, <1>3, <2>1
  <2>3. QED
    BY <2>1, <2>2 DEF BufInv, Expected!Extend
<1>7. CASE TrimIt
  BY <1>1, <1>2, <1>3, <1>7, TrimStep
<1>8. CASE BufNext
  BY <1>4, <1>5, <1>6, <1>7, <1>8 DEF BufNext, BufEnd
<1>9. CASE UNCHANGED bufVars
  BY <1>4, <1>9 DEF bufVars
<1>10. QED
  BY <1>8, <1>9 DEF Next, vars

\* The array begins empty.
LEMMA BufferInit ==
    ASSUME Init
    PROVE  BufInv /\ Expected!BInit
<1>1. bytes = Nuls(BufSize) \o <<Guard, Guard>> /\ start = 1
  BY DEF Init, BufInit, BufRest
<1>2. BufSize \in Nat \ {0}
  BY BufAssumption
<1>3. /\ Nuls(BufSize) \in Seq(Chars) /\ Len(Nuls(BufSize)) = BufSize /\ Nuls(BufSize)[1] = NUL
      /\ <<Guard, Guard>> \in Seq(Chars) /\ Len(<<Guard, Guard>>) = 2
      /\ <<Guard, Guard>>[1] = Guard /\ <<Guard, Guard>>[2] = Guard
  BY <1>2 DEF Nuls, Chars, NUL, Guard
<1>4. /\ bytes \in Seq(Chars) /\ Len(bytes) = BufSize + 2
      /\ \A i \in 1..(BufSize + 2) :
            bytes[i] = IF i =< BufSize THEN Nuls(BufSize)[i] ELSE <<Guard, Guard>>[i - BufSize]
  <2> DEFINE g == <<Guard, Guard>>
  <2>1. g \in Seq(Chars) /\ Len(g) = 2
    BY <1>3
  <2> HIDE DEF g
  <2>2. bytes = Nuls(BufSize) \o g
    BY <1>1 DEF g
  <2>3. QED
    BY <1>3, <2>1, <2>2, ConcatProperties DEF g
<1>5. bytes[1] = NUL /\ bytes[BufSize + 1] = Guard /\ bytes[BufSize + 2] = Guard
  <2>1. /\ 1 \in 1..(BufSize + 2) /\ 1 =< BufSize
        /\ BufSize + 1 \in 1..(BufSize + 2) /\ ~(BufSize + 1 =< BufSize) /\ (BufSize + 1) - BufSize = 1
        /\ BufSize + 2 \in 1..(BufSize + 2) /\ ~(BufSize + 2 =< BufSize) /\ (BufSize + 2) - BufSize = 2
    BY <1>2
  <2>2. QED
    BY <1>3, <1>4, <2>1
<1>6. Reads(bytes, start, <<>>)
  <2> DEFINE e == <<>>
  <2>1. e \in Seq(Chars \ {NUL}) /\ Len(e) = 0 /\ \A i \in 1..Len(e) : bytes[start + i - 1] = e[i]
    OBVIOUS
  <2> HIDE DEF e
  <2>2. start \in 1..BufSize /\ start + Len(e) =< BufSize /\ start + Len(e) = 1
    BY <1>1, <1>2, <2>1
  <2>3. Reads(bytes, start, e)
    BY <1>4, <1>5, <2>1, <2>2 DEF Reads, Array
  <2>4. QED
    BY <2>3 DEF e
<1>7. heldString = <<>>
  BY <1>6, HeldIs DEF heldString
<1>8. QED
  BY <1>6, <1>7 DEF BufInv, Expected!BInit

(***************************************************************************)
(* Whatever sequence of calls of strcpy, strncpy, strlcpy, strcat,         *)
(* strncat, strlcat, strrtrim and strtrim is made on an array of any size, *)
(* with any strings, the array holds the string it should: StringBuffer is *)
(* implemented, and the bytes behind the array are not written.            *)
(***************************************************************************)
THEOREM BufferIsString == Spec => BufferImplements
<1>1. Init => BufInv /\ Expected!BInit
  BY BufferInit
<1>2. BufInv /\ [Next]_vars
        => BufInv' /\ [Expected!Copy \/ Expected!Extend \/ Expected!TrimEnd \/ Expected!Trim]_heldString
  BY BufferStep
<1>3. QED
  BY <1>1, <1>2, PTL DEF Spec, BufferImplements, Expected!BSpec

-----------------------------------------------------------------------------
(***************************************************************************)
(* strtok.                                                                 *)
(***************************************************************************)
\* The only delimiter.
LEMMA DelimFact ==
    ASSUME NEW c, c # NUL
    PROVE  Strchr(delim, c) # 0 <=> c = Dash
<1> DEFINE G(q) == delim[q] # NUL /\ delim[q] # c
           P(q) == ~G(q) /\ \A r \in 1..(q - 1) : G(r)
           k == CHOOSE q \in 1..Len(delim) : P(q)
<1>1. Len(delim) = 2 /\ delim[1] = Dash /\ delim[2] = NUL /\ Dash # NUL
  BY DEF delim, Dash, NUL
<1>2. Strchr(delim, c) = IF delim[k] = c THEN k ELSE 0
  BY Zenon DEF Strchr, Loop
<1>3. \A q \in 1..2 : q = 1 \/ q = 2
  OBVIOUS
<1>4. 1 \in 1..2 /\ 2 \in 1..2 /\ 1..(1 - 1) = {} /\ 1..(2 - 1) = {1}
  OBVIOUS
<1>5. CASE c = Dash
  <2>1. P(1)
    BY <1>1, <1>4, <1>5
  <2>2. k \in 1..2 /\ P(k)
    <3> HIDE DEF P
    <3>1. QED
      BY <1>1, <1>4, <2>1
  <2>3. k = 1
    BY <1>1, <1>3, <1>4, <1>5, <2>2
  <2> HIDE DEF k
  <2>4. QED
    BY <1>1, <1>2, <1>5, <2>3
<1>6. CASE c # Dash
  <2>1. P(2)
    BY <1>1, <1>4, <1>6
  <2>2. k \in 1..2 /\ P(k)
    <3> HIDE DEF P
    <3>1. QED
      BY <1>1, <1>4, <2>1
  <2>3. k = 2
    BY <1>1, <1>3, <1>4, <1>6, <2>2
  <2> HIDE DEF k
  <2>4. QED
    BY <1>1, <1>2, <1>6, <2>3
<1>7. QED
  BY <1>5, <1>6

\* Where the delimiters before a token end.
LEMMA SpanStops ==
    ASSUME LineKept, NEW p \in 1..(Len(line) + 1)
    PROVE  /\ Span(text, p, delim) \in p..(Len(line) + 1)
           /\ text[Span(text, p, delim)] # Dash
           /\ \A r \in p..(Span(text, p, delim) - 1) : text[r] = Dash
<1> DEFINE last == Len(line) + 1
           G(i) == text[i] # NUL /\ Strchr(delim, text[i]) # 0
           P(q) == ~G(q) /\ \A r \in p..(q - 1) : G(r)
           c == CHOOSE q \in p..last : P(q)
           set == {i \in Int : G(i)}
<1>1. Len(line) \in Nat /\ last \in Nat /\ p \in Nat /\ Len(text) = last /\ text[last] = NUL /\ Dash # NUL
  BY DEF LineKept, Dash, NUL
<1>2. \A i : G(i) <=> text[i] = Dash
  BY <1>1, DelimFact
<1> HIDE DEF last
<1>3. PICK l \in p..last : FirstOutside(l, p, set)
  <2>1. last \in p..last /\ last \notin set
    BY <1>1 DEF last
  <2> HIDE DEF set
  <2>2. QED
    BY <1>1, <2>1, LoopEnds
<1>4. l \in p..last /\ P(l)
  <2>1. l \in Int /\ \A r \in p..(l - 1) : r \in Int
    BY <1>1
  <2>2. QED
    BY <1>3, <2>1 DEF FirstOutside
<1>5. c \in p..last /\ P(c)
  <2> HIDE DEF P
  <2>1. QED
    BY <1>4
<1>6. Span(text, p, delim) = c
  BY <1>1, Zenon DEF Span, Loop
<1> HIDE DEF c, G
<1>7. text[c] # Dash /\ \A r \in p..(c - 1) : text[r] = Dash
  BY <1>2, <1>5
<1>8. QED
  BY <1>5, <1>6, <1>7 DEF last

\* Where a token ends.
LEMMA CspanStops ==
    ASSUME LineKept, NEW p \in 1..(Len(line) + 1)
    PROVE  /\ Cspan(text, p, delim) \in p..(Len(line) + 1)
           /\ text[Cspan(text, p, delim)] \in {NUL, Dash}
           /\ \A r \in p..(Cspan(text, p, delim) - 1) : text[r] # NUL /\ text[r] # Dash
<1> DEFINE last == Len(line) + 1
           G(i) == text[i] # NUL /\ Strchr(delim, text[i]) = 0
           P(q) == ~G(q) /\ \A r \in p..(q - 1) : G(r)
           c == CHOOSE q \in p..last : P(q)
           set == {i \in Int : G(i)}
<1>1. Len(line) \in Nat /\ last \in Nat /\ p \in Nat /\ Len(text) = last /\ text[last] = NUL
  BY DEF LineKept
<1>2. \A i : G(i) <=> text[i] \notin {NUL, Dash}
  BY DelimFact
<1> HIDE DEF last
<1>3. PICK l \in p..last : FirstOutside(l, p, set)
  <2>1. last \in p..last /\ last \notin set
    BY <1>1 DEF last
  <2> HIDE DEF set
  <2>2. QED
    BY <1>1, <2>1, LoopEnds
<1>4. l \in p..last /\ P(l)
  <2>1. l \in Int /\ \A r \in p..(l - 1) : r \in Int
    BY <1>1
  <2>2. QED
    BY <1>3, <2>1 DEF FirstOutside
<1>5. c \in p..last /\ P(c)
  <2> HIDE DEF P
  <2>1. QED
    BY <1>4
<1>6. Cspan(text, p, delim) = c
  BY <1>1, Zenon DEF Cspan, Loop
<1> HIDE DEF c, G
<1>7. text[c] \in {NUL, Dash} /\ \A r \in p..(c - 1) : text[r] # NUL /\ text[r] # Dash
  BY <1>2, <1>5
<1>8. QED
  BY <1>5, <1>6, <1>7 DEF last

\* The line before the first call of strtok, or none.
LEMMA TokInitInv ==
    ASSUME Init
    PROVE  TokInv
<1>1. /\ text = Append(line, NUL) /\ tokens = <<>> /\ saveptr \in {0, 1}
      /\ line \in Seq(Chars \ {NUL}) /\ (saveptr = 0 => Len(line) = 0)
  <2>1. CASE TokRest
    BY <2>1 DEF TokRest, NoPointer
  <2>2. CASE /\ line \in UNION {[1..n -> {97, Dash}] : n \in 0..MaxString}
             /\ text = Append(line, NUL)
             /\ saveptr = 1 /\ tokens = <<>>
    <3>1. PICK n \in 0..MaxString : line \in [1..n -> {97, Dash}]
      BY <2>2
    <3>2. n \in Nat
      BY StringsAssumption
    <3>3. {97, Dash} \subseteq Chars \ {NUL}
      BY DEF Dash, Chars, NUL
    <3>4. line \in [1..n -> Chars \ {NUL}]
      BY <3>1, <3>3
    <3>5. QED
      BY <2>2, <3>2, <3>4
  <2>3. QED
    BY <2>1, <2>2 DEF Init, StrInit, StrRest
<1>2. Len(line) \in Nat /\ NUL \in Chars /\ line \in Seq(Chars)
  BY <1>1 DEF Chars, NUL
<1>3. /\ text \in Seq(Chars) /\ Len(text) = Len(line) + 1 /\ text[Len(line) + 1] = NUL
      /\ \A i \in 1..Len(line) : text[i] = line[i]
  BY <1>1, <1>2
<1>4. LineKept
  BY <1>1, <1>3 DEF LineKept
<1>5. saveptr \in 0..(Len(line) + 1) /\ \A i \in 1..Len(line) : ~(i < saveptr)
  BY <1>1, <1>2
<1>6. PointerKept
  <2>1. ASSUME saveptr # NoPointer
        PROVE  saveptr = 1
    BY <1>1, <2>1 DEF NoPointer
  <2>2. QED
    BY <1>3, <1>5, <2>1 DEF PointerKept
<1>7. tokens \in Seq(Nat) /\ Len(tokens) = 0 /\ 1..Len(tokens) = {}
  BY <1>1
<1>8. ASSUME NEW p \in Starts, saveptr = NoPointer \/ p < saveptr
      PROVE  FALSE
  <2>1. p \in 1..Len(line)
    BY DEF Starts
  <2>2. QED
    BY <1>1, <1>2, <1>5, <1>8, <2>1 DEF NoPointer
<1>9. TokensKept
  BY <1>7, <1>8 DEF TokensKept
<1>10. QED
  BY <1>4, <1>6, <1>9 DEF TokInv

\* A call that finds no token.
LEMMA NoMoreTokens ==
    ASSUME TokInv, saveptr # NoPointer, NEW p \in saveptr..(Len(line) + 1), text[p] = NUL,
           \A r \in saveptr..(p - 1) : text[r] = Dash,
           saveptr' = NoPointer, UNCHANGED <<text, tokens, line>>
    PROVE  TokInv'
<1>1. /\ Len(line) \in Nat /\ saveptr \in 1..(Len(line) + 1) /\ saveptr \in Nat /\ line \in Seq(Chars \ {NUL})
      /\ \A i \in saveptr..Len(line) : text[i] = line[i]
  BY DEF TokInv, LineKept, PointerKept, NoPointer
<1>2. p = Len(line) + 1
  <2>1. SUFFICES ASSUME p \in saveptr..Len(line) PROVE FALSE
    BY <1>1
  <2>2. text[p] = line[p] /\ p \in 1..Len(line)
    BY <1>1, <2>1
  <2>3. QED
    BY <1>1, <2>2
<1>3. LineKept' /\ PointerKept'
  BY <1>1 DEF TokInv, LineKept, PointerKept, NoPointer
<1>4. ASSUME NEW i \in Starts
      PROVE  i < saveptr
  <2>1. i \in 1..Len(line) /\ line[i] # Dash
    BY DEF Starts
  <2>2. SUFFICES ASSUME i \in saveptr..Len(line) PROVE FALSE
    BY <1>1, <2>1
  <2>3. i \in saveptr..(p - 1)
    BY <1>1, <1>2, <2>2
  <2>4. QED
    BY <1>1, <2>1, <2>2, <2>3
<1>5. /\ tokens \in Seq(Nat)
      /\ \A n \in 1..Len(tokens) :
          /\ tokens[n] \in Starts
          /\ \A m \in 1..(n - 1) : tokens[m] < tokens[n]
          /\ \E e : TokenEnds(text, line, tokens[n], e)
      /\ \A i \in Starts : \E n \in 1..Len(tokens) : tokens[n] = i
  BY <1>4 DEF TokInv, TokensKept
<1>6. Starts' = Starts
  BY DEF Starts
<1>7. TokensKept'
  BY <1>5, <1>6 DEF TokensKept, NoPointer
<1>8. QED
  BY <1>3, <1>7 DEF TokInv

\* A token is found, and what follows it is cut off or the NUL is there.
LEMMA TokenFound ==
    ASSUME TokInv, saveptr # NoPointer,
           NEW p \in saveptr..Len(line), NEW q \in (p + 1)..(Len(line) + 1),
           \A r \in saveptr..(p - 1) : text[r] = Dash,
           \A r \in p..(q - 1) : text[r] # Dash,
           tokens' = Append(tokens, p), UNCHANGED line,
           LineKept', PointerKept', \A i \in 1..(Len(line) + 1) : text[i] = NUL => text'[i] = NUL,
           text'[q] = NUL,
           \/ q = Len(line) + 1 /\ saveptr' = NoPointer
           \/ q =< Len(line) /\ line[q] = Dash /\ saveptr' = q + 1
    PROVE  TokensKept'
<1>1. /\ Len(line) \in Nat /\ saveptr \in 1..(Len(line) + 1) /\ saveptr \in Nat /\ line \in Seq(Chars \ {NUL})
      /\ \A i \in saveptr..Len(line) : text[i] = line[i]
      /\ saveptr = 1 \/ line[saveptr - 1] = Dash
      /\ p \in Nat /\ q \in Nat /\ p \in 1..Len(line)
  BY DEF TokInv, LineKept, PointerKept, NoPointer
<1>2. /\ tokens \in Seq(Nat) /\ Len(tokens) \in Nat
      /\ \A n \in 1..Len(tokens) :
          /\ tokens[n] \in Starts /\ tokens[n] < saveptr
          /\ \A m \in 1..(n - 1) : tokens[m] < tokens[n]
          /\ \E e : TokenEnds(text, line, tokens[n], e)
      /\ \A i \in Starts : i < saveptr => \E n \in 1..Len(tokens) : tokens[n] = i
  <2>1. TokensKept /\ tokens \in Seq(Nat)
    BY DEF TokInv, TokensKept
  <2>2. Len(tokens) \in Nat
    BY <2>1
  <2>3. QED
    BY <2>1, <2>2, Zenon DEF TokensKept
<1>3. /\ \A r \in saveptr..(p - 1) : line[r] = Dash
      /\ \A r \in p..(q - 1) : line[r] # Dash
  <2>1. \A r \in saveptr..(p - 1) : r \in saveptr..Len(line)
    BY <1>1
  <2>2. \A r \in p..(q - 1) : r \in saveptr..Len(line)
    BY <1>1
  <2>3. QED
    BY <1>1, <2>1, <2>2
<1>4. Starts' = Starts
  BY DEF Starts
<1>5. p \in Starts
  <2>1. p \in p..(q - 1)
    BY <1>1
  <2>2. line[p] # Dash
    BY <1>3, <2>1
  <2>3. p = 1 \/ line[p - 1] = Dash
    <3>1. CASE p = saveptr
      BY <1>1, <3>1
    <3>2. CASE p # saveptr
      <4>1. p - 1 \in saveptr..(p - 1)
        BY <1>1, <3>2
      <4>2. QED
        BY <1>3, <4>1
    <3>3. QED
      BY <3>1, <3>2
  <2>4. QED
    BY <1>1, <2>2, <2>3 DEF Starts
<1>6. \A i, e : TokenEnds(text, line, i, e) /\ i \in 1..Len(line) => TokenEnds(text', line', i, e)
  <2>1. ASSUME NEW i \in 1..Len(line), NEW e, TokenEnds(text, line, i, e)
        PROVE  TokenEnds(text', line', i, e)
    <3>1. e \in i..Len(line) /\ text[e + 1] = NUL
      BY <2>1 DEF TokenEnds
    <3>2. e + 1 \in 1..(Len(line) + 1)
      BY <1>1, <3>1
    <3>3. text'[e + 1] = NUL
      BY <3>1, <3>2
    <3>4. QED
      BY <2>1, <3>3 DEF TokenEnds
  <2>2. QED
    BY <2>1
<1>7. \E e : TokenEnds(text', line', p, e)
  <2>1. q - 1 \in p..Len(line) /\ (q - 1) + 1 = q
    BY <1>1
  <2>2. q - 1 = Len(line) \/ line[(q - 1) + 1] = Dash
    BY <1>1, <2>1
  <2>3. TokenEnds(text', line', p, q - 1)
    BY <1>3, <2>1, <2>2 DEF TokenEnds
  <2>4. QED
    BY <2>3
<1>8. /\ tokens' \in Seq(Nat) /\ Len(tokens') = Len(tokens) + 1
      /\ tokens'[Len(tokens) + 1] = p
      /\ \A n \in 1..Len(tokens) : tokens'[n] = tokens[n]
  BY <1>1, <1>2
<1>9. ASSUME NEW n \in 1..Len(tokens')
      PROVE  /\ tokens'[n] \in Starts' /\ (saveptr' # NoPointer => tokens'[n] < saveptr')
             /\ \A m \in 1..(n - 1) : tokens'[m] < tokens'[n]
             /\ \E e : TokenEnds(text', line', tokens'[n], e)
  <2>1. CASE n \in 1..Len(tokens)
    <3>1. tokens'[n] = tokens[n] /\ \A m \in 1..(n - 1) : m \in 1..Len(tokens)
      BY <1>2, <1>8, <2>1
    <3>2. tokens[n] \in Starts /\ tokens[n] < saveptr /\ tokens[n] \in 1..Len(line)
      BY <1>2, <2>1 DEF Starts
    <3>3. saveptr' # NoPointer => tokens[n] < saveptr'
      BY <1>1, <3>2
    <3>4. \E e : TokenEnds(text', line', tokens[n], e)
      BY <1>2, <1>6, <2>1, <3>2
    <3>5. QED
      BY <1>2, <1>4, <1>8, <2>1, <3>1, <3>2, <3>3, <3>4
  <2>2. CASE n = Len(tokens) + 1
    <3>1. tokens'[n] = p /\ n - 1 = Len(tokens)
      BY <1>2, <1>8, <2>2
    <3>2. saveptr' # NoPointer => p < saveptr'
      BY <1>1
    <3>3. ASSUME NEW m \in 1..(n - 1)
          PROVE  tokens'[m] < tokens'[n]
      <4>1. m \in 1..Len(tokens)
        BY <3>1
      <4>2. tokens'[m] = tokens[m] /\ tokens[m] < saveptr
        BY <1>2, <1>8, <4>1
      <4>3. tokens[m] \in Nat
        BY <1>2, <4>1, SMTT(30)
      <4>4. QED
        BY <1>1, <3>1, <4>2, <4>3
    <3>4. QED
      BY <1>4, <1>5, <1>7, <3>1, <3>2, <3>3
  <2>3. QED
    BY <1>2, <1>8, <2>1, <2>2
<1>10. ASSUME NEW i \in Starts', saveptr' = NoPointer \/ i < saveptr'
       PROVE  \E n \in 1..Len(tokens') : tokens'[n] = i
  <2>1. /\ i \in Starts /\ i \in 1..Len(line) /\ line[i] # Dash
        /\ i = 1 \/ line[i - 1] = Dash
    BY <1>4 DEF Starts
  <2>2. CASE i < saveptr
    <3>1. PICK n \in 1..Len(tokens) : tokens[n] = i
      BY <1>2, <2>1, <2>2
    <3>2. n \in 1..Len(tokens') /\ tokens'[n] = i
      BY <1>2, <1>8, <3>1
    <3>3. QED
      BY <3>2
  <2>3. CASE i = p
    <3>1. Len(tokens) + 1 \in 1..Len(tokens')
      BY <1>2, <1>8
    <3>2. QED
      BY <1>8, <2>3, <3>1
  <2>4. CASE i \in saveptr..(p - 1)
    BY <1>3, <2>1, <2>4
  <2>5. CASE i \in (p + 1)..(q - 1)
    <3>1. i - 1 \in p..(q - 1) /\ i # 1
      BY <1>1, <2>5
    <3>2. QED
      BY <1>3, <2>1, <3>1
  <2>6. CASE q =< i
    <3>1. q =< Len(line) /\ line[q] = Dash /\ saveptr' = q + 1
      BY <1>1, <2>1, <2>6
    <3>2. i = q
      BY <1>1, <1>10, <2>1, <2>6, <3>1 DEF NoPointer
    <3>3. QED
      BY <2>1, <3>1, <3>2
  <2>7. QED
    BY <1>1, <2>1, <2>2, <2>3, <2>4, <2>5, <2>6, SMTT(30)
<1>11. QED
  BY <1>8, <1>9, <1>10 DEF TokensKept

\* One call of strtok.
LEMMA StrtokStep ==
    ASSUME TokInv, Strtok
    PROVE  TokInv'
<1> DEFINE p == Span(text, saveptr, delim)
           q == Cspan(text, p, delim)
<1>1. /\ saveptr # NoPointer /\ line' = line
      /\ IF text[p] = NUL
         THEN saveptr' = NoPointer /\ UNCHANGED <<text, tokens>>
         ELSE /\ tokens' = Append(tokens, p)
              /\ IF text[q] = NUL THEN saveptr' = NoPointer /\ text' = text
                 ELSE saveptr' = q + 1 /\ text' = [text EXCEPT ![q] = NUL]
  BY DEF Strtok
<1>2. /\ LineKept /\ PointerKept /\ Len(line) \in Nat /\ saveptr \in 1..(Len(line) + 1) /\ saveptr \in Nat
      /\ line \in Seq(Chars \ {NUL}) /\ text \in Seq(Chars) /\ Len(text) = Len(line) + 1
      /\ text[Len(line) + 1] = NUL
      /\ \A i \in saveptr..Len(line) : text[i] = line[i]
      /\ \A i \in 1..Len(line) : text[i] = line[i] \/ (text[i] = NUL /\ line[i] = Dash)
  BY <1>1 DEF TokInv, LineKept, PointerKept, NoPointer
<1>3. p \in saveptr..(Len(line) + 1) /\ text[p] # Dash /\ \A r \in saveptr..(p - 1) : text[r] = Dash
  BY <1>2, SpanStops
<1> HIDE DEF p
<1>4. CASE text[p] = NUL
  BY <1>1, <1>3, <1>4, NoMoreTokens
<1>5. CASE text[p] # NUL
  <2>1. p \in saveptr..Len(line) /\ p \in 1..(Len(line) + 1) /\ p \in Nat
    BY <1>2, <1>3, <1>5
  <2>2. /\ q \in p..(Len(line) + 1) /\ text[q] \in {NUL, Dash}
        /\ \A r \in p..(q - 1) : text[r] # NUL /\ text[r] # Dash
    BY <1>2, <2>1, CspanStops
  <2> HIDE DEF q
  <2>3. q \in (p + 1)..(Len(line) + 1) /\ q \in Nat
    <3>1. q # p
      BY <1>3, <1>5, <2>2
    <3>2. QED
      BY <1>2, <2>1, <2>2, <3>1
  <2>4. CASE text[q] = NUL
    <3>1. q = Len(line) + 1
      <4>1. SUFFICES ASSUME q \in saveptr..Len(line) PROVE FALSE
        BY <1>2, <2>1, <2>3
      <4>2. text[q] = line[q] /\ q \in 1..Len(line)
        BY <1>2, <4>1
      <4>3. QED
        BY <1>2, <2>4, <4>2
    <3>2. tokens' = Append(tokens, p) /\ saveptr' = NoPointer /\ text' = text
      BY <1>1, <1>5, <2>4
    <3>3. LineKept' /\ PointerKept'
      BY <1>1, <1>2, <3>2 DEF LineKept, PointerKept, NoPointer
    <3>4. TokensKept'
      BY <1>1, <1>2, <1>3, <2>1, <2>2, <2>3, <2>4, <3>1, <3>2, <3>3, TokenFound
    <3>5. QED
      BY <3>3, <3>4 DEF TokInv
  <2>5. CASE text[q] # NUL
    <3>1. text[q] = Dash /\ q \in saveptr..Len(line) /\ q \in 1..Len(line) /\ q =< Len(line)
      BY <1>2, <2>1, <2>2, <2>3, <2>5
    <3>2. line[q] = Dash
      BY <1>2, <3>1
    <3>3. tokens' = Append(tokens, p) /\ saveptr' = q + 1 /\ text' = [text EXCEPT ![q] = NUL]
      BY <1>1, <1>5, <2>5
    <3>4. /\ text' \in Seq(Chars) /\ Len(text') = Len(line) + 1 /\ text'[q] = NUL
          /\ \A i \in 1..(Len(line) + 1) : i # q => text'[i] = text[i]
      <4>1. q \in 1..Len(text) /\ NUL \in Chars
        BY <1>2, <3>1 DEF Chars, NUL
      <4>2. QED
        BY <1>2, <3>3, <4>1, ExceptSeq
    <3>5. LineKept'
      <4>1. text'[Len(line) + 1] = NUL
        BY <1>2, <3>1, <3>4
      <4>2. \A i \in 1..Len(line) : text'[i] = line[i] \/ (text'[i] = NUL /\ line[i] = Dash)
        BY <1>2, <3>2, <3>4
      <4>3. QED
        BY <1>1, <1>2, <3>4, <4>1, <4>2 DEF LineKept
    <3>6. PointerKept'
      <4>1. saveptr' \in 0..(Len(line) + 1) /\ saveptr' - 1 = q
        BY <1>2, <3>1, <3>3
      <4>2. \A i \in (q + 1)..Len(line) : text'[i] = line[i]
        <5>1. \A i \in (q + 1)..Len(line) : i \in saveptr..Len(line) /\ i \in 1..(Len(line) + 1) /\ i # q
          BY <1>2, <3>1
        <5>2. QED
          BY <1>2, <3>4, <5>1
      <4>3. QED
        BY <1>1, <3>2, <3>3, <4>1, <4>2 DEF PointerKept
    <3>7. \A i \in 1..(Len(line) + 1) : text[i] = NUL => text'[i] = NUL
      BY <3>4
    <3>8. TokensKept'
      BY <1>1, <1>3, <2>1, <2>2, <2>3, <3>1, <3>2, <3>3, <3>4, <3>5, <3>6, <3>7, TokenFound
    <3>9. QED
      BY <3>5, <3>6, <3>8 DEF TokInv
  <2>6. QED
    BY <2>4, <2>5
<1>6. QED
  BY <1>4, <1>5

\* A token reads in the text as in the line.
LEMMA TokenReads ==
    ASSUME LineKept, NEW p \in Starts, NEW e, TokenEnds(text, line, p, e)
    PROVE  InText(p) = InLine(p)
<1>1. /\ Len(line) \in Nat /\ p \in 1..Len(line) /\ e \in p..Len(line) /\ p \in Nat /\ e \in Nat
      /\ line \in Seq(Chars \ {NUL}) /\ text \in Seq(Chars) /\ Len(text) = Len(line) + 1 /\ Len(text) \in Nat
      /\ text[e + 1] = NUL
      /\ e = Len(line) \/ line[e + 1] = Dash
      /\ \A i \in p..e : line[i] # Dash
  BY DEF LineKept, TokenEnds, Starts
<1>2. \A i \in p..e : text[i] = line[i] /\ text[i] # NUL
  <2>1. \A i \in p..e : i \in 1..Len(line)
    BY <1>1
  <2>2. QED
    BY <1>1, <2>1 DEF LineKept
<1>3. InText(p) = SubSeq(text, p, e)
  <2> DEFINE G(q) == text[q] # NUL
             P(q) == ~G(q) /\ \A r \in p..(q - 1) : G(r)
             c == CHOOSE q \in p..Len(text) : P(q)
  <2>1. e + 1 \in p..Len(text) /\ P(e + 1)
    <3>1. e + 1 \in p..Len(text) /\ (e + 1) - 1 = e
      BY <1>1
    <3>2. QED
      BY <1>1, <1>2, <3>1
  <2>2. c \in p..Len(text) /\ P(c)
    <3> HIDE DEF P
    <3>1. QED
      BY <2>1
  <2>3. InText(p) = SubSeq(text, p, c - 1)
    BY Zenon DEF InText, Loop
  <2> HIDE DEF c
  <2>4. c - 1 = e
    <3>1. ~(c < e + 1)
      <4>1. c < e + 1 => c \in p..e
        BY <1>1, <2>2
      <4>2. QED
        BY <1>2, <2>2, <4>1
    <3>2. ~(e + 1 < c)
      <4>1. e + 1 < c => e + 1 \in p..(c - 1)
        BY <1>1, <2>2
      <4>2. QED
        BY <1>1, <2>2, <4>1
    <3>3. QED
      BY <1>1, <2>2, <3>1, <3>2
  <2>5. QED
    BY <2>3, <2>4
<1>4. InLine(p) = SubSeq(line, p, e)
  <2> DEFINE ends == {q \in p..Len(line) : q = Len(line) \/ line[q + 1] = Dash}
             c == CHOOSE q \in ends : \A r \in ends : q =< r
  <2>1. e \in ends /\ ends \in SUBSET Nat
    BY <1>1
  <2>2. \A r \in ends : e =< r
    <3>1. ASSUME NEW r \in ends, r < e
          PROVE  FALSE
      <4>1. r + 1 \in p..e /\ r # Len(line)
        BY <1>1, <3>1
      <4>2. QED
        BY <1>1, <4>1
    <3>2. QED
      BY <1>1, <3>1
  <2>3. InLine(p) = SubSeq(line, p, c)
    BY Zenon DEF InLine
  <2> HIDE DEF ends
  <2>4. e = c
    BY <2>1, <2>2, LeastChosen
  <2> HIDE DEF c
  <2>5. QED
    BY <2>3, <2>4
<1>5. SubSeq(text, p, e) = SubSeq(line, p, e)
  <2> DEFINE m == e - p + 1
  <2>1. m \in Nat /\ \A i \in 1..m : p + i - 1 \in p..e
    BY <1>1
  <2>2. /\ SubSeq(text, p, e) \in Seq(Chars) /\ Len(SubSeq(text, p, e)) = m
        /\ \A i \in 1..m : SubSeq(text, p, e)[i] = text[p + i - 1]
    BY <1>1
  <2>3. line \in Seq(Chars)
    BY <1>1
  <2>4. /\ SubSeq(line, p, e) \in Seq(Chars) /\ Len(SubSeq(line, p, e)) = m
        /\ \A i \in 1..m : SubSeq(line, p, e)[i] = line[p + i - 1]
    BY <1>1, <2>3
  <2> HIDE DEF m
  <2>5. \A i \in 1..m : SubSeq(text, p, e)[i] = SubSeq(line, p, e)[i]
    BY <1>2, <2>1, <2>2, <2>4
  <2>6. QED
    BY <2>2, <2>4, <2>5, SeqEqual
<1>6. QED
  BY <1>3, <1>4, <1>5

\* Every token is found once, so there are as many as there are runs.
LEMMA AllTokens ==
    ASSUME TokInv, saveptr = NoPointer
    PROVE  Len(tokens) = Cardinality(Starts)
<1> DEFINE L == Len(tokens)
<1>1. /\ tokens \in Seq(Nat) /\ L \in Nat
      /\ \A n \in 1..L : tokens[n] \in Starts /\ \A m \in 1..(n - 1) : tokens[m] < tokens[n]
      /\ \A i \in Starts : \E n \in 1..L : tokens[n] = i
  <2>1. tokens \in Seq(Nat) /\ TokensKept
    BY DEF TokInv, TokensKept
  <2>2. L \in Nat
    BY <2>1
  <2>3. QED
    BY <2>1, <2>2 DEF TokensKept
<1> HIDE DEF L
<1>2. tokens \in [1..L -> Starts]
  <2>1. tokens \in [1..L -> Nat]
    BY <1>1 DEF L
  <2>2. QED
    BY <1>1, <2>1
<1>3. \A m, n \in 1..L : m # n => tokens[m] # tokens[n]
  <2>1. ASSUME NEW m \in 1..L, NEW n \in 1..L, m < n
        PROVE  tokens[m] # tokens[n]
    <3>1. m \in 1..(n - 1) /\ tokens[m] \in Nat /\ tokens[n] \in Nat
      BY <1>1, <2>1 DEF L
    <3>2. tokens[m] < tokens[n]
      BY <1>1, <3>1
    <3>3. QED
      BY <3>1, <3>2
  <2>2. \A m, n \in 1..L : m # n => m < n \/ n < m
    BY <1>1
  <2>3. QED
    BY <2>1, <2>2
<1>4. tokens \in Bijection(1..L, Starts)
  BY <1>1, <1>2, <1>3, Zenon DEF Bijection, Injection, Surjection, IsInjective
<1>5. ExistsBijection(1..L, Starts)
  BY <1>4 DEF ExistsBijection
<1>6. QED
  BY <1>1, <1>5, FS_CountingElements DEF L

LEMMA TokStep ==
    ASSUME TokInv, TokDone, StrNext \/ UNCHANGED strVars
    PROVE  TokInv' /\ TokDone'
<1>1. CASE Strtok
  <2>1. str_pc = "strtok" /\ str_pc' = str_pc
    BY <1>1 DEF Strtok
  <2>2. QED
    BY <1>1, <2>1, StrtokStep DEF TokDone
<1>2. CASE UNCHANGED tokVars /\ TokDone'
  <2>1. UNCHANGED <<text, line, saveptr, tokens>>
    BY <1>2 DEF tokVars
  <2>2. QED
    BY <1>2, <2>1 DEF TokInv, LineKept, PointerKept, TokensKept, Starts
<1>3. CASE MoveByte \/ MoveEnd \/ StrtokEnd \/ UNCHANGED strVars
  <2>1. UNCHANGED <<text, line, saveptr, tokens>> /\ (str_pc' = str_pc \/ saveptr = NoPointer)
    BY <1>3 DEF MoveByte, MoveEnd, StrtokEnd, strVars, tokVars, TokDone
  <2>2. QED
    BY <1>2, <2>1 DEF tokVars, TokDone
<1>4. QED
  BY <1>1, <1>3 DEF StrNext

(***************************************************************************)
(* The calls of strtok return every run between delimiters, each once, in  *)
(* order and intact, for a line of any length.                             *)
(***************************************************************************)
THEOREM TokensAreRight == Spec => []TokensRight
<1>1. Init => TokInv /\ TokDone
  <2>1. Init => TokDone
    BY DEF Init, StrInit, StrRest, TokRest, TokDone
  <2>2. QED
    BY <2>1, TokInitInv
<1>2. TokInv /\ TokDone /\ [Next]_vars => TokInv' /\ TokDone'
  BY TokStep DEF Next, vars
<1>3. TokInv /\ TokDone => TokensRight
  <2>1. SUFFICES ASSUME TokInv, TokDone PROVE TokensRight
    OBVIOUS
  <2>2. str_pc = "done" => Len(tokens) = Cardinality(Starts)
    BY <2>1, AllTokens DEF TokDone
  <2>3. ASSUME NEW n \in 1..Len(tokens)
        PROVE  /\ tokens[n] \in Starts
               /\ n > 1 => tokens[n - 1] < tokens[n]
               /\ InText(tokens[n]) = InLine(tokens[n])
    <3>1. /\ tokens[n] \in Starts /\ LineKept /\ tokens \in Seq(Nat)
          /\ \A m \in 1..(n - 1) : tokens[m] < tokens[n]
          /\ \E e : TokenEnds(text, line, tokens[n], e)
      BY <2>1 DEF TokInv, TokensKept
    <3>2. n > 1 => n - 1 \in 1..(n - 1)
      BY <3>1
    <3>3. InText(tokens[n]) = InLine(tokens[n])
      BY <3>1, TokenReads
    <3>4. QED
      BY <3>1, <3>2, <3>3
  <2>4. QED
    BY <2>2, <2>3 DEF TokensRight
<1>4. QED
  BY <1>1, <1>2, <1>3, PTL DEF Spec

-----------------------------------------------------------------------------
(***************************************************************************)
(* The functions that compare and search.                                  *)
(***************************************************************************)
LEMMA TextFacts ==
    ASSUME NEW s, IsText(s)
    PROVE  /\ s \in Seq(Chars) /\ s \in Seq(Int) /\ Len(s) \in Nat \ {0} /\ s[Len(s)] = NUL /\ CString(s)
           /\ \A i \in 1..Len(s) : s[i] \in Chars /\ s[i] \in Int /\ (s[i] = NUL <=> i = Len(s))
<1>1. s \in Seq(Chars) /\ s # <<>> /\ \A i \in 1..Len(s) : s[i] = NUL <=> i = Len(s)
  BY DEF IsText
<1>2. Len(s) \in Nat \ {0} /\ \A i \in 1..Len(s) : s[i] \in Chars
  BY <1>1
<1>3. Chars \subseteq Nat /\ Chars \subseteq Int
  BY DEF Chars
<1>4. s \in [1..Len(s) -> Nat] /\ s \in [1..Len(s) -> Int]
  <2>1. s \in [1..Len(s) -> Chars]
    BY <1>1
  <2>2. QED
    BY <1>3, <2>1
<1>5. s \in Seq(Nat) /\ s \in Seq(Int)
  BY <1>2, <1>4
<1>6. Len(s) \in 1..Len(s) /\ \A i \in 1..(Len(s) - 1) : i \in 1..Len(s) /\ i # Len(s)
  BY <1>2
<1>7. QED
  BY <1>1, <1>2, <1>3, <1>5, <1>6 DEF CString

\* Two sequences that part at k are in the order of what they have there.
LEMMA OrderAt ==
    ASSUME NEW a \in Seq(Int), NEW b \in Seq(Int), NEW k \in 1..Len(a), k =< Len(b),
           \A r \in 1..(k - 1) : a[r] = b[r], a[k] # b[k]
    PROVE  Order(a, b) = Sign(a[k] - b[k])
<1>1. Len(a) \in Nat /\ Len(b) \in Nat /\ k \in Nat \ {0} /\ k \in 1..Len(b)
  OBVIOUS
<1>2. a[k] \in Int /\ b[k] \in Int
  BY <1>1
<1>3. a # b
  OBVIOUS
<1>4. CASE a[k] < b[k]
  <2> DEFINE x == SubSeq(a, 1, k - 1)
             y == SubSeq(b, 1, k - 1)
  <2>1. k - 1 \in Nat
    BY <1>1
  <2>2. x \in Seq(Int) /\ Len(x) = k - 1 /\ \A i \in 1..(k - 1) : x[i] = a[i]
    BY <1>1, <2>1
  <2>3. y \in Seq(Int) /\ Len(y) = k - 1 /\ \A i \in 1..(k - 1) : y[i] = b[i]
    BY <1>1, <2>1
  <2> HIDE DEF x, y
  <2>4. \A i \in 1..Len(x) : x[i] = y[i]
    BY <2>2, <2>3
  <2>5. x = y
    BY <2>2, <2>3, <2>4, SeqEqual
  <2>6. Before(a, b)
    BY <1>4, <2>5 DEF Before, x, y
  <2>7. Order(a, b) = -1
    BY <1>3, <2>6 DEF Order
  <2>8. Sign(a[k] - b[k]) = -1
    BY <1>2, <1>4 DEF Sign
  <2>9. QED
    BY <2>7, <2>8
<1>5. CASE ~(a[k] < b[k])
  <2>1. ASSUME NEW j \in 1..Len(a), j =< Len(b), a[j] < b[j], SubSeq(a, 1, j - 1) = SubSeq(b, 1, j - 1)
        PROVE  FALSE
    <3>1. j \in Nat /\ j - 1 \in Nat /\ a[j] \in Int /\ b[j] \in Int
      BY <1>1, <2>1
    <3>2. ~(j < k)
      <4>1. j < k => j \in 1..(k - 1)
        BY <1>1
      <4>2. QED
        BY <2>1, <3>1, <4>1
    <3>3. j # k
      BY <1>5, <2>1
    <3>4. k \in 1..(j - 1)
      BY <1>1, <3>1, <3>2, <3>3
    <3>5. \A i \in 1..(j - 1) : SubSeq(a, 1, j - 1)[i] = a[i]
      BY <1>1, <3>1
    <3>6. \A i \in 1..(j - 1) : SubSeq(b, 1, j - 1)[i] = b[i]
      BY <1>1, <2>1, <3>1
    <3>7. QED
      BY <2>1, <3>4, <3>5, <3>6
  <2>2. ~Before(a, b)
    BY <2>1 DEF Before
  <2>3. Order(a, b) = 1
    BY <1>3, <2>2 DEF Order
  <2>4. Sign(a[k] - b[k]) = 1
    BY <1>2, <1>5 DEF Sign
  <2>5. QED
    BY <2>3, <2>4
<1>6. QED
  BY <1>4, <1>5

LEMMA OrderSame ==
    ASSUME NEW a, NEW b, a = b
    PROVE  Order(a, b) = 0 /\ Sign(0) = 0
BY DEF Order, Sign

\* Two texts that are equal up to the end of one are equal.
LEMMA SameTexts ==
    ASSUME NEW a, IsText(a), NEW b, IsText(b), NEW k \in 1..Len(a), k =< Len(b),
           \A r \in 1..(k - 1) : a[r] = b[r], a[k] = NUL, b[k] = NUL
    PROVE  a = b
<1>1. /\ a \in Seq(Int) /\ b \in Seq(Int) /\ Len(a) \in Nat /\ Len(b) \in Nat /\ k \in 1..Len(b)
      /\ k = Len(a) /\ k = Len(b)
  BY TextFacts
<1>2. \A i \in 1..Len(a) : a[i] = b[i]
  <2>1. \A i \in 1..Len(a) : i = k \/ i \in 1..(k - 1)
    BY <1>1
  <2>2. QED
    BY <2>1
<1>3. QED
  BY <1>1, <1>2, SeqEqual

\* The loop of strcmp.
LEMMA StrcmpRight ==
    ASSUME NEW a, IsText(a), NEW b, IsText(b)
    PROVE  Sign(Strcmp(a, b)) = Order(a, b)
<1> DEFINE G(i) == a[i] # NUL /\ a[i] = b[i]
           P(q) == ~G(q) /\ \A r \in 1..(q - 1) : G(r)
           k == CHOOSE q \in 1..Len(a) : P(q)
           set == {i \in Int : G(i)}
<1>1. /\ a \in Seq(Int) /\ b \in Seq(Int) /\ Len(a) \in Nat \ {0} /\ Len(b) \in Nat \ {0}
      /\ a[Len(a)] = NUL /\ b[Len(b)] = NUL
  BY TextFacts
<1>2. PICK l \in 1..Len(a) : FirstOutside(l, 1, set)
  <2>1. Len(a) \in 1..Len(a) /\ Len(a) \notin set /\ 1 \in Nat
    BY <1>1
  <2> HIDE DEF set
  <2>2. QED
    BY <1>1, <2>1, LoopEnds
<1>3. P(l)
  <2>1. l \in Int /\ \A r \in 1..(l - 1) : r \in Int
    BY <1>1
  <2>2. QED
    BY <1>2, <2>1 DEF FirstOutside
<1>4. k \in 1..Len(a) /\ P(k)
  <2> HIDE DEF P
  <2>1. QED
    BY <1>3
<1>5. Strcmp(a, b) = a[k] - b[k]
  BY Zenon DEF Strcmp, Loop
<1> HIDE DEF k
<1>6. k =< Len(b)
  <2>1. Len(b) \notin 1..(k - 1)
    BY <1>1, <1>4
  <2>2. QED
    BY <1>1, <1>4, <2>1
<1>7. k \in 1..Len(b) /\ a[k] \in Int /\ b[k] \in Int
  BY <1>1, <1>4, <1>6
<1>8. CASE a[k] = b[k]
  <2>1. a[k] = NUL /\ b[k] = NUL
    BY <1>4, <1>8
  <2>2. a = b
    BY <1>4, <1>6, <2>1, SameTexts
  <2>3. Strcmp(a, b) = 0
    BY <1>5, <1>7, <1>8
  <2>4. QED
    BY <2>2, <2>3, OrderSame
<1>9. CASE a[k] # b[k]
  BY <1>1, <1>4, <1>5, <1>6, <1>9, OrderAt
<1>10. QED
  BY <1>8, <1>9

LEMMA StrncmpStops ==
    ASSUME NEW a, IsText(a), NEW b, IsText(b), NEW max \in Nat
    PROVE  \E k : PartsAt(a, b, max, k)
<1> DEFINE G(i) == i =< max /\ a[i] # NUL /\ a[i] = b[i]
           P(q) == ~G(q) /\ \A r \in 1..(q - 1) : G(r)
           k == CHOOSE q \in 1..Len(a) : P(q)
           set == {i \in Int : G(i)}
<1>1. /\ Len(a) \in Nat \ {0} /\ Len(b) \in Nat \ {0} /\ a[Len(a)] = NUL /\ b[Len(b)] = NUL
  BY TextFacts
<1>2. PICK l \in 1..Len(a) : FirstOutside(l, 1, set)
  <2>1. Len(a) \in 1..Len(a) /\ Len(a) \notin set /\ 1 \in Nat
    BY <1>1
  <2> HIDE DEF set
  <2>2. QED
    BY <1>1, <2>1, LoopEnds
<1>3. P(l)
  <2>1. l \in Int /\ \A r \in 1..(l - 1) : r \in Int
    BY <1>1
  <2>2. QED
    BY <1>2, <2>1 DEF FirstOutside
<1>4. k \in 1..Len(a) /\ P(k)
  <2> HIDE DEF P
  <2>1. QED
    BY <1>3
<1>5. Strncmp(a, b, max) = IF k > max THEN 0 ELSE a[k] - b[k]
  BY Zenon DEF Strncmp, Loop
<1> HIDE DEF k
<1>6. k =< Len(b)
  <2>1. Len(b) \notin 1..(k - 1)
    BY <1>1, <1>4
  <2>2. QED
    BY <1>1, <1>4, <2>1
<1>7. k =< max + 1
  <2>1. SUFFICES ASSUME max + 1 < k PROVE FALSE
    BY <1>1, <1>4
  <2>2. max + 1 \in 1..(k - 1)
    BY <1>1, <1>4, <2>1
  <2>3. QED
    BY <1>4, <2>2
<1>8. PartsAt(a, b, max, k)
  <2>1. k > max <=> ~(k =< max)
    BY <1>1, <1>4
  <2>2. QED
    BY <1>4, <1>5, <1>6, <1>7, <2>1 DEF PartsAt
<1>9. QED
  BY <1>8

\* What is left of a text that is cut off.
LEMMA CutFacts ==
    ASSUME NEW s, IsText(s), NEW max \in Nat
    PROVE  /\ Cut(s, max) \in Seq(Int) /\ Len(Cut(s, max)) = IF Len(s) > max THEN max + 1 ELSE Len(s)
           /\ \A i \in 1..Len(s) : i =< max => Cut(s, max)[i] = s[i]
           /\ Len(s) > max => Cut(s, max)[max + 1] = NUL
<1>1. s \in Seq(Int) /\ Len(s) \in Nat \ {0} /\ NUL \in Int
  BY TextFacts DEF NUL
<1>2. CASE Len(s) > max
  <2> DEFINE x == SubSeq(s, 1, max)
  <2>1. x \in Seq(Int) /\ Len(x) = max /\ \A i \in 1..max : x[i] = s[i]
    BY <1>1, <1>2
  <2>2. Cut(s, max) = Append(x, NUL)
    BY <1>2 DEF Cut
  <2> HIDE DEF x
  <2>3. /\ Append(x, NUL) \in Seq(Int) /\ Len(Append(x, NUL)) = max + 1 /\ Append(x, NUL)[max + 1] = NUL
        /\ \A i \in 1..max : Append(x, NUL)[i] = x[i]
    BY <1>1, <2>1
  <2>4. \A i \in 1..Len(s) : i =< max => i \in 1..max
    BY <1>1
  <2>5. QED
    BY <1>2, <2>1, <2>2, <2>3, <2>4
<1>3. CASE ~(Len(s) > max)
  BY <1>1, <1>3 DEF Cut
<1>4. QED
  BY <1>2, <1>3

LEMMA StrncmpRight ==
    ASSUME NEW a, IsText(a), NEW b, IsText(b), NEW max \in Nat
    PROVE  Sign(Strncmp(a, b, max)) = Order(Cut(a, max), Cut(b, max))
<1> DEFINE x == Cut(a, max)
           y == Cut(b, max)
<1>1. PICK k : PartsAt(a, b, max, k)
  BY StrncmpStops
<1>2. /\ Len(a) \in Nat \ {0} /\ Len(b) \in Nat \ {0}
      /\ \A i \in 1..Len(a) : a[i] \in Int /\ (a[i] = NUL <=> i = Len(a))
      /\ \A i \in 1..Len(b) : b[i] \in Int
  BY TextFacts
<1>3. /\ k \in 1..Len(a) /\ k =< Len(b) /\ k =< max + 1 /\ k \in Nat \ {0} /\ k \in 1..Len(b)
      /\ \A r \in 1..(k - 1) : a[r] = b[r] /\ a[r] # NUL
      /\ k > max \/ a[k] = NUL \/ a[k] # b[k]
      /\ Strncmp(a, b, max) = IF k > max THEN 0 ELSE a[k] - b[k]
  BY <1>1, <1>2 DEF PartsAt
<1>4. /\ x \in Seq(Int) /\ Len(x) = IF Len(a) > max THEN max + 1 ELSE Len(a)
      /\ \A i \in 1..Len(a) : i =< max => x[i] = a[i]
      /\ Len(a) > max => x[max + 1] = NUL
  BY CutFacts
<1>5. /\ y \in Seq(Int) /\ Len(y) = IF Len(b) > max THEN max + 1 ELSE Len(b)
      /\ \A i \in 1..Len(b) : i =< max => y[i] = b[i]
      /\ Len(b) > max => y[max + 1] = NUL
  BY CutFacts
<1> HIDE DEF x, y
<1>6. ASSUME NEW r \in 1..(k - 1), k =< max \/ r =< max
      PROVE  x[r] = y[r]
  <2>1. r \in 1..Len(a) /\ r \in 1..Len(b) /\ r =< max
    BY <1>2, <1>3, <1>6
  <2>2. QED
    BY <1>3, <1>4, <1>5, <2>1
<1>7. CASE k > max
  <2>1. k = max + 1 /\ Len(x) = max + 1 /\ Len(y) = max + 1
    BY <1>2, <1>3, <1>4, <1>5, <1>7
  <2>2. x[max + 1] = NUL /\ y[max + 1] = NUL
    BY <1>2, <1>3, <1>4, <1>5, <2>1
  <2>3. \A i \in 1..Len(x) : x[i] = y[i]
    <3>1. \A i \in 1..Len(x) : i = max + 1 \/ (i \in 1..(k - 1) /\ i =< max)
      BY <2>1
    <3>2. QED
      BY <1>6, <2>2, <3>1
  <2>4. x = y
    BY <1>4, <1>5, <2>1, <2>3, SeqEqual
  <2>5. QED
    BY <1>3, <1>7, <2>4, OrderSame DEF x, y
<1>8. CASE ~(k > max)
  <2>1. k =< max
    BY <1>3, <1>8
  <2>2. x[k] = a[k] /\ y[k] = b[k] /\ a[k] \in Int /\ b[k] \in Int
    BY <1>2, <1>3, <1>4, <1>5, <2>1
  <2>3. k \in 1..Len(x) /\ k =< Len(y)
    BY <1>2, <1>3, <1>4, <1>5, <2>1
  <2>4. \A r \in 1..(k - 1) : x[r] = y[r]
    BY <1>6, <2>1
  <2>5. CASE a[k] = b[k]
    <3>1. a[k] = NUL /\ b[k] = NUL
      BY <1>3, <1>8, <2>5
    <3>2. a = b
      BY <1>3, <3>1, SameTexts
    <3>3. Strncmp(a, b, max) = 0
      BY <1>3, <1>8, <2>2, <2>5
    <3>4. x = y
      BY <3>2 DEF x, y
    <3>5. QED
      BY <3>3, <3>4, OrderSame DEF x, y
  <2>6. CASE a[k] # b[k]
    <3>1. Order(x, y) = Sign(x[k] - y[k])
      BY <1>4, <1>5, <2>2, <2>3, <2>4, <2>6, OrderAt
    <3>2. Strncmp(a, b, max) = x[k] - y[k]
      BY <1>3, <1>8, <2>2
    <3>3. QED
      BY <3>1, <3>2 DEF x, y
  <2>7. QED
    BY <2>5, <2>6
<1>9. QED
  BY <1>7, <1>8

\* Only NUL has the lower case NUL.
LEMMA LowerFact ==
    ASSUME NEW c \in Chars
    PROVE  Tolower(c) \in Int /\ (Tolower(c) = NUL <=> c = NUL)
<1>1. c \in Nat /\ NUL = 0
  BY DEF Chars, NUL
<1>2. CASE Isupper(c)
  <2>1. Tolower(c) = c + 32
    BY <1>2 DEF Tolower
  <2>2. c # 0
    <3>1. ~Isupper(0)
      BY DEF Isupper, Is, ctype_table, Chars
    <3>2. QED
      BY <1>2, <3>1
  <2>3. QED
    BY <1>1, <2>1, <2>2
<1>3. CASE ~Isupper(c)
  BY <1>1, <1>3 DEF Tolower
<1>4. QED
  BY <1>2, <1>3

LEMMA StrcasecmpRight ==
    ASSUME NEW a, IsText(a), NEW b, IsText(b)
    PROVE  Sign(Strcasecmp(a, b)) = Order(Lower(a), Lower(b))
<1> DEFINE G(i) == a[i] # NUL /\ Tolower(a[i]) = Tolower(b[i])
           P(q) == ~G(q) /\ \A r \in 1..(q - 1) : G(r)
           k == CHOOSE q \in 1..Len(a) : P(q)
           set == {i \in Int : G(i)}
           x == Lower(a)
           y == Lower(b)
<1>1. /\ Len(a) \in Nat \ {0} /\ Len(b) \in Nat \ {0} /\ a[Len(a)] = NUL /\ b[Len(b)] = NUL
      /\ \A i \in 1..Len(a) : a[i] \in Chars /\ (a[i] = NUL <=> i = Len(a))
      /\ \A i \in 1..Len(b) : b[i] \in Chars /\ (b[i] = NUL <=> i = Len(b))
  BY TextFacts
<1>2. PICK l \in 1..Len(a) : FirstOutside(l, 1, set)
  <2>1. Len(a) \in 1..Len(a) /\ Len(a) \notin set /\ 1 \in Nat
    BY <1>1
  <2> HIDE DEF set
  <2>2. QED
    BY <1>1, <2>1, LoopEnds
<1>3. P(l)
  <2>1. l \in Int /\ \A r \in 1..(l - 1) : r \in Int
    BY <1>1
  <2>2. QED
    BY <1>2, <2>1 DEF FirstOutside
<1>4. k \in 1..Len(a) /\ P(k)
  <2> HIDE DEF P
  <2>1. QED
    BY <1>3
<1>5. Strcasecmp(a, b) = Tolower(a[k]) - Tolower(b[k])
  BY Zenon DEF Strcasecmp, Loop
<1> HIDE DEF k
<1>6. k =< Len(b)
  <2>1. SUFFICES ASSUME Len(b) < k PROVE FALSE
    BY <1>1, <1>4
  <2>2. Len(b) \in 1..(k - 1) /\ Len(b) \in 1..Len(a) /\ Len(b) \in 1..Len(b)
    BY <1>1, <1>4, <2>1
  <2>3. a[Len(b)] # NUL /\ Tolower(a[Len(b)]) = Tolower(b[Len(b)])
    BY <1>4, <2>2
  <2>4. QED
    BY <1>1, <2>2, <2>3, LowerFact
<1>7. x \in Seq(Int) /\ Len(x) = Len(a) /\ \A i \in 1..Len(a) : x[i] = Tolower(a[i])
  BY <1>1, LowerFact DEF Lower
<1>8. y \in Seq(Int) /\ Len(y) = Len(b) /\ \A i \in 1..Len(b) : y[i] = Tolower(b[i])
  BY <1>1, LowerFact DEF Lower
<1> HIDE DEF x, y
<1>9. k \in 1..Len(b) /\ x[k] = Tolower(a[k]) /\ y[k] = Tolower(b[k]) /\ x[k] \in Int /\ y[k] \in Int
  <2>1. k \in 1..Len(b)
    BY <1>1, <1>4, <1>6
  <2>2. QED
    BY <1>4, <1>7, <1>8, <2>1
<1>10. \A r \in 1..(k - 1) : x[r] = y[r]
  <2>1. \A r \in 1..(k - 1) : r \in 1..Len(a) /\ r \in 1..Len(b)
    BY <1>1, <1>4, <1>9
  <2>2. QED
    BY <1>4, <1>7, <1>8, <2>1
<1>11. CASE x[k] = y[k]
  <2>1. a[k] = NUL
    BY <1>4, <1>9, <1>11
  <2>2. b[k] = NUL
    <3>1. Tolower(a[k]) = Tolower(b[k]) /\ a[k] \in Chars /\ b[k] \in Chars
      BY <1>1, <1>4, <1>9, <1>11
    <3>2. QED
      BY <2>1, <3>1, LowerFact
  <2>3. k = Len(a) /\ k = Len(b)
    BY <1>1, <1>4, <1>9, <2>1, <2>2
  <2>4. \A i \in 1..Len(x) : x[i] = y[i]
    <3>1. \A i \in 1..Len(x) : i = k \/ i \in 1..(k - 1)
      BY <1>1, <1>7, <2>3
    <3>2. QED
      BY <1>10, <1>11, <3>1
  <2>5. x = y
    BY <1>7, <1>8, <2>3, <2>4, SeqEqual
  <2>6. Strcasecmp(a, b) = 0
    BY <1>5, <1>9, <1>11
  <2>7. QED
    BY <2>5, <2>6, OrderSame DEF x, y
<1>12. CASE x[k] # y[k]
  <2>1. k \in 1..Len(x) /\ k =< Len(y)
    BY <1>4, <1>6, <1>7, <1>8
  <2>2. Order(x, y) = Sign(x[k] - y[k])
    BY <1>7, <1>8, <1>10, <1>12, <2>1, OrderAt
  <2>3. QED
    BY <1>5, <1>9, <2>2 DEF x, y
<1>13. QED
  BY <1>11, <1>12

LEMMA MemcmpRight ==
    ASSUME NEW a, IsText(a), NEW b, IsText(b), NEW max \in 0..Len(a), max =< Len(b)
    PROVE  Sign(Memcmp(a, b, max)) = Order(SubSeq(a, 1, max), SubSeq(b, 1, max))
<1> DEFINE G(i) == i =< max /\ a[i] = b[i]
           P(q) == ~G(q) /\ \A r \in 1..(q - 1) : G(r)
           k == CHOOSE q \in 1..(max + 1) : P(q)
           set == {i \in Int : G(i)}
           x == SubSeq(a, 1, max)
           y == SubSeq(b, 1, max)
<1>1. /\ a \in Seq(Int) /\ b \in Seq(Int) /\ Len(a) \in Nat \ {0} /\ Len(b) \in Nat \ {0} /\ max \in Nat
  BY TextFacts
<1>2. PICK l \in 1..(max + 1) : FirstOutside(l, 1, set)
  <2>1. max + 1 \in 1..(max + 1) /\ max + 1 \notin set /\ 1 \in Nat /\ max + 1 \in Nat
    BY <1>1
  <2> HIDE DEF set
  <2>2. QED
    BY <1>1, <2>1, LoopEnds
<1>3. P(l)
  <2>1. l \in Int /\ \A r \in 1..(l - 1) : r \in Int
    BY <1>1
  <2>2. QED
    BY <1>2, <2>1 DEF FirstOutside
<1>4. k \in 1..(max + 1) /\ P(k)
  <2> HIDE DEF P
  <2>1. QED
    BY <1>3
<1>5. Memcmp(a, b, max) = IF k > max THEN 0 ELSE a[k] - b[k]
  BY Zenon DEF Memcmp, Loop
<1> HIDE DEF k
<1>6. x \in Seq(Int) /\ Len(x) = max /\ \A i \in 1..max : x[i] = a[i]
  BY <1>1
<1>7. y \in Seq(Int) /\ Len(y) = max /\ \A i \in 1..max : y[i] = b[i]
  BY <1>1
<1> HIDE DEF x, y
<1>8. \A r \in 1..(k - 1) : r \in 1..max /\ x[r] = y[r]
  <2>1. \A r \in 1..(k - 1) : r \in 1..max
    BY <1>1, <1>4
  <2>2. QED
    BY <1>4, <1>6, <1>7, <2>1
<1>9. CASE k > max
  <2>1. \A i \in 1..Len(x) : i \in 1..(k - 1)
    BY <1>1, <1>4, <1>6, <1>9
  <2>2. \A i \in 1..Len(x) : x[i] = y[i]
    BY <1>8, <2>1
  <2>3. x = y
    BY <1>6, <1>7, <2>2, SeqEqual
  <2>4. QED
    BY <1>5, <1>9, <2>3, OrderSame DEF x, y
<1>10. CASE ~(k > max)
  <2>1. k \in 1..max /\ k =< max
    BY <1>1, <1>4, <1>10
  <2>2. x[k] = a[k] /\ y[k] = b[k] /\ x[k] # y[k]
    BY <1>4, <1>6, <1>7, <2>1
  <2>3. Order(x, y) = Sign(x[k] - y[k])
    BY <1>6, <1>7, <1>8, <2>1, <2>2, OrderAt
  <2>4. QED
    BY <1>5, <1>10, <2>2, <2>3 DEF x, y
<1>11. QED
  BY <1>9, <1>10

\* The least of a set, and of a set that has none.
LEMMA LeastIs ==
    ASSUME NEW S \in SUBSET Nat, NEW p \in S, \A q \in S : p =< q
    PROVE  Least(S) = p
<1>1. p = CHOOSE i \in S : \A j \in S : i =< j
  BY LeastChosen
<1>2. S # {}
  OBVIOUS
<1>3. QED
  BY <1>1, <1>2, Zenon DEF Least

\* strchr: a place of c, or NULL.
LEMMA StrchrRight ==
    ASSUME NEW s, IsText(s), NEW c
    PROVE  Strchr(s, c) = Least({k \in 1..Len(s) : s[k] = c})
<1> DEFINE G(i) == s[i] # NUL /\ s[i] # c
           P(q) == ~G(q) /\ \A r \in 1..(q - 1) : G(r)
           k == CHOOSE q \in 1..Len(s) : P(q)
           set == {i \in Int : G(i)}
           hits == {i \in 1..Len(s) : s[i] = c}
<1>1. Len(s) \in Nat \ {0} /\ s[Len(s)] = NUL /\ \A i \in 1..Len(s) : s[i] = NUL <=> i = Len(s)
  BY TextFacts
<1>2. PICK l \in 1..Len(s) : FirstOutside(l, 1, set)
  <2>1. Len(s) \in 1..Len(s) /\ Len(s) \notin set /\ 1 \in Nat
    BY <1>1
  <2> HIDE DEF set
  <2>2. QED
    BY <1>1, <2>1, LoopEnds
<1>3. P(l)
  <2>1. l \in Int /\ \A r \in 1..(l - 1) : r \in Int
    BY <1>1
  <2>2. QED
    BY <1>2, <2>1 DEF FirstOutside
<1>4. k \in 1..Len(s) /\ P(k)
  <2> HIDE DEF P
  <2>1. QED
    BY <1>3
<1>5. Strchr(s, c) = IF s[k] = c THEN k ELSE 0
  BY Zenon DEF Strchr, Loop
<1> HIDE DEF k
<1>6. \A i \in hits : k =< i
  <2>1. ASSUME NEW i \in hits, i < k
        PROVE  FALSE
    <3>1. i \in 1..(k - 1)
      BY <1>1, <1>4, <2>1
    <3>2. QED
      BY <1>4, <3>1
  <2>2. QED
    BY <1>1, <1>4, <2>1
<1>7. hits \in SUBSET Nat
  BY <1>1
<1>8. CASE s[k] = c
  <2>1. k \in hits
    BY <1>4, <1>8
  <2> HIDE DEF hits
  <2>2. Least(hits) = k
    BY <1>6, <1>7, <2>1, LeastIs
  <2>3. QED
    BY <1>5, <1>8, <2>2 DEF hits
<1>9. CASE s[k] # c
  <2>1. s[k] = NUL
    BY <1>4, <1>9
  <2>2. k = Len(s)
    BY <1>1, <1>4, <2>1
  <2>3. hits = {}
    <3>1. \A i \in hits : i = k
      BY <1>1, <1>6, <2>2
    <3>2. QED
      BY <1>9, <3>1
  <2>4. QED
    BY <1>5, <1>9, <2>3 DEF Least
<1>10. QED
  BY <1>8, <1>9

\* NULL means that the character is not there.
LEMMA StrchrFinds ==
    ASSUME NEW s, IsText(s), NEW c
    PROVE  Strchr(s, c) # 0 <=> \E i \in 1..Len(s) : s[i] = c
<1> DEFINE hits == {i \in 1..Len(s) : s[i] = c}
<1>1. Strchr(s, c) = Least(hits)
  BY StrchrRight
<1>2. Len(s) \in Nat
  BY TextFacts
<1>3. ASSUME hits # {}
      PROVE  Least(hits) # 0
  <2>1. hits \in SUBSET Nat /\ \A i \in hits : i # 0
    BY <1>2
  <2> HIDE DEF hits
  <2>2. PICK p \in hits : \A q \in hits : p =< q
    BY <1>3, <2>1, LeastExists
  <2>3. Least(hits) = p
    BY <2>1, <2>2, LeastIs
  <2>4. QED
    BY <2>1, <2>3
<1>4. hits = {} => Least(hits) = 0
  BY DEF Least
<1>5. hits # {} <=> \E i \in 1..Len(s) : s[i] = c
  OBVIOUS
<1>6. QED
  BY <1>1, <1>3, <1>4, <1>5

\* strlen, as a difference.
LEMMA StrlenIs ==
    ASSUME NEW s, IsText(s)
    PROVE  Strlen(s) = Len(s) - 1
<1> DEFINE Q(q) == ~(s[q] # NUL) /\ \A r \in 1..(q - 1) : s[r] # NUL
           z == CHOOSE q \in 1..Len(s) : Q(q)
<1>1. Len(s) \in Nat \ {0} /\ CString(s) /\ \A i \in 1..Len(s) : s[i] = NUL <=> i = Len(s)
  BY TextFacts
<1>2. Len(s) \in 1..Len(s) /\ Q(Len(s))
  BY <1>1
<1>3. z \in 1..Len(s)
  <2> HIDE DEF Q
  <2>1. QED
    BY <1>2
<1>4. Strlen(s) = z - 1
  BY Zenon DEF Strlen, Loop
<1>5. Strlen(s) + 1 = Len(s)
  BY <1>1, StrlenFact
<1> HIDE DEF z
<1>6. QED
  BY <1>1, <1>3, <1>4, <1>5

LEMMA StrrchrRight ==
    ASSUME NEW s, IsText(s), NEW c
    PROVE  LET hits == {k \in 1..Len(s) : s[k] = c}
           IN  (\A k \in hits : k =< Strrchr(s, c)) /\ Strrchr(s, c) \in hits \cup {0}
<1> DEFINE all == {i \in 1..Len(s) : s[i] = c}
           hits == {i \in 1..Strlen(s) : s[i] = c}
           P(k) == \A i \in hits : i =< k
           top == CHOOSE k \in hits \cup {0} : P(k)
<1>1. Len(s) \in Nat \ {0} /\ s[Len(s)] = NUL /\ CString(s) /\ \A i \in 1..Len(s) : s[i] = NUL <=> i = Len(s)
  BY TextFacts
<1>2. Strlen(s) + 1 = Len(s) /\ Strlen(s) \in Int
  BY <1>1, StrlenIs
<1>3. CASE c = NUL
  <2>1. Strrchr(s, c) = Len(s)
    BY <1>2, <1>3 DEF Strrchr
  <2>2. Len(s) \in all /\ \A i \in all : i =< Len(s)
    BY <1>1, <1>3
  <2>3. QED
    BY <2>1, <2>2
<1>4. CASE c # NUL
  <2>1. hits = all
    BY <1>1, <1>2, <1>4
  <2>2. Strrchr(s, c) = top
    BY <1>4, Zenon DEF Strrchr
  <2>3. \E k \in hits \cup {0} : P(k)
    <3> DEFINE bounds == {u \in Nat : \A i \in all : i =< u}
    <3>1. Len(s) \in bounds /\ bounds \in SUBSET Nat
      BY <1>1
    <3>2. PICK u \in bounds : \A v \in bounds : u =< v
      BY <3>1, LeastExists
    <3>3. CASE u = 0
      BY <2>1, <3>2, <3>3
    <3>4. CASE u # 0
      <4>1. u - 1 \in Nat /\ u - 1 \notin bounds
        BY <3>2, <3>4
      <4>2. PICK i \in all : ~(i =< u - 1)
        BY <4>1
      <4>3. i = u
        BY <1>1, <3>2, <4>1, <4>2
      <4>4. QED
        BY <2>1, <3>2, <4>2, <4>3
    <3>5. QED
      BY <3>3, <3>4
  <2>4. top \in hits \cup {0} /\ P(top)
    <3> HIDE DEF P
    <3>1. QED
      BY <2>3
  <2> HIDE DEF top
  <2>5. QED
    BY <2>1, <2>2, <2>4
<1>5. QED
  BY <1>3, <1>4

LEMMA MemchrRight ==
    ASSUME NEW s, IsText(s), NEW c, NEW max \in 0..Len(s)
    PROVE  Memchr(s, c, max) = Least({k \in 1..Len(s) : s[k] = c} \cap (1..max))
<1> DEFINE G(i) == i =< max /\ s[i] # c
           P(q) == ~G(q) /\ \A r \in 1..(q - 1) : G(r)
           k == CHOOSE q \in 1..(max + 1) : P(q)
           set == {i \in Int : G(i)}
           hits == {i \in 1..Len(s) : s[i] = c} \cap (1..max)
<1>1. Len(s) \in Nat \ {0} /\ max \in Nat
  BY TextFacts
<1>2. PICK l \in 1..(max + 1) : FirstOutside(l, 1, set)
  <2>1. max + 1 \in 1..(max + 1) /\ max + 1 \notin set /\ 1 \in Nat /\ max + 1 \in Nat
    BY <1>1
  <2> HIDE DEF set
  <2>2. QED
    BY <1>1, <2>1, LoopEnds
<1>3. P(l)
  <2>1. l \in Int /\ \A r \in 1..(l - 1) : r \in Int
    BY <1>1
  <2>2. QED
    BY <1>2, <2>1 DEF FirstOutside
<1>4. k \in 1..(max + 1) /\ P(k)
  <2> HIDE DEF P
  <2>1. QED
    BY <1>3
<1>5. Memchr(s, c, max) = IF k > max THEN 0 ELSE k
  BY Zenon DEF Memchr, Loop
<1> HIDE DEF k
<1>6. \A i \in hits : k =< i
  <2>1. ASSUME NEW i \in hits, i < k
        PROVE  FALSE
    <3>1. i \in 1..(k - 1)
      BY <1>1, <1>4, <2>1
    <3>2. QED
      BY <1>4, <3>1
  <2>2. QED
    BY <1>1, <1>4, <2>1
<1>7. CASE k > max
  <2>1. hits = {}
    BY <1>1, <1>4, <1>6, <1>7
  <2>2. QED
    BY <1>5, <1>7, <2>1 DEF Least
<1>8. CASE ~(k > max)
  <2>1. k \in hits /\ hits \in SUBSET Nat
    BY <1>1, <1>4, <1>8
  <2> HIDE DEF hits
  <2>2. Least(hits) = k
    BY <1>6, <2>1, LeastIs
  <2>3. QED
    BY <1>5, <1>8, <2>2 DEF hits
<1>9. QED
  BY <1>7, <1>8

LEMMA StrpbrkRight ==
    ASSUME NEW s, IsText(s), NEW t, IsText(t)
    PROVE  Strpbrk(s, t) = Least({k \in 1..(Len(s) - 1) : \E i \in 1..Len(t) : s[k] = t[i]})
<1> DEFINE G(i) == s[i] # NUL /\ Strchr(t, s[i]) = 0
           P(q) == ~G(q) /\ \A r \in 1..(q - 1) : G(r)
           k == CHOOSE q \in 1..Len(s) : P(q)
           set == {i \in Int : G(i)}
           hits == {j \in 1..(Len(s) - 1) : \E i \in 1..Len(t) : s[j] = t[i]}
<1>1. Len(s) \in Nat \ {0} /\ s[Len(s)] = NUL /\ \A i \in 1..Len(s) : s[i] = NUL <=> i = Len(s)
  BY TextFacts
<1>2. PICK l \in 1..Len(s) : FirstOutside(l, 1, set)
  <2>1. Len(s) \in 1..Len(s) /\ Len(s) \notin set /\ 1 \in Nat
    BY <1>1
  <2> HIDE DEF set
  <2>2. QED
    BY <1>1, <2>1, LoopEnds
<1>3. P(l)
  <2>1. l \in Int /\ \A r \in 1..(l - 1) : r \in Int
    BY <1>1
  <2>2. QED
    BY <1>2, <2>1 DEF FirstOutside
<1>4. k \in 1..Len(s) /\ P(k)
  <2> HIDE DEF P
  <2>1. QED
    BY <1>3
<1>5. Strpbrk(s, t) = IF s[k] = NUL THEN 0 ELSE k
  BY Zenon DEF Strpbrk, Loop
<1> HIDE DEF k
<1>6. \A j \in 1..(Len(s) - 1) : j \in hits <=> Strchr(t, s[j]) # 0
  <2>1. \A j \in 1..(Len(s) - 1) : j \in hits <=> \E i \in 1..Len(t) : t[i] = s[j]
    OBVIOUS
  <2>2. \A x : Strchr(t, x) # 0 <=> \E i \in 1..Len(t) : t[i] = x
    BY StrchrFinds
  <2> HIDE DEF hits
  <2>3. QED
    BY <2>1, <2>2
<1>7. hits \in SUBSET Nat /\ hits \subseteq 1..(Len(s) - 1)
  BY <1>1
<1> HIDE DEF hits
<1>8. \A j \in hits : k =< j
  <2>1. ASSUME NEW j \in hits, j < k
        PROVE  FALSE
    <3>1. j \in 1..(k - 1)
      BY <1>1, <1>4, <1>7, <2>1
    <3>2. QED
      BY <1>4, <1>6, <1>7, <3>1
  <2>2. QED
    BY <1>1, <1>4, <1>7, <2>1
<1>9. CASE s[k] = NUL
  <2>1. k = Len(s)
    BY <1>1, <1>4, <1>9
  <2>2. hits = {}
    BY <1>1, <1>7, <1>8, <2>1
  <2>3. QED
    BY <1>5, <1>9, <2>2 DEF Least, hits
<1>10. CASE s[k] # NUL
  <2>1. k \in 1..(Len(s) - 1)
    BY <1>1, <1>4, <1>10
  <2>2. k \in hits
    BY <1>4, <1>6, <1>10, <2>1
  <2>3. Least(hits) = k
    BY <1>7, <1>8, <2>2, LeastIs
  <2>4. QED
    BY <1>5, <1>10, <2>3 DEF hits
<1>11. QED
  BY <1>9, <1>10

\* A text without its NUL.
LEMMA BodyFacts ==
    ASSUME NEW t, IsText(t)
    PROVE  Body(t) \in Seq(Int) /\ Len(Body(t)) = Len(t) - 1 /\ \A i \in 1..(Len(t) - 1) : Body(t)[i] = t[i]
<1>1. t \in Seq(Int) /\ Len(t) \in Nat \ {0}
  BY TextFacts
<1> DEFINE m == Len(t) - 1
<1>2. m \in Nat /\ m =< Len(t)
  BY <1>1
<1> HIDE DEF m
<1>3. SubSeq(t, 1, m) \in Seq(Int) /\ Len(SubSeq(t, 1, m)) = m /\ \A i \in 1..m : SubSeq(t, 1, m)[i] = t[i]
  BY <1>1, <1>2
<1>4. QED
  BY <1>3 DEF Body, m

\* Where a sequence occurs, character by character.
LEMMA OccursMeans ==
    ASSUME NEW s \in Seq(Int), NEW u \in Seq(Int), NEW p
    PROVE  p \in Occurs(s, u) <=> /\ p \in 1..(Len(s) - Len(u) + 1)
                                  /\ \A i \in 1..Len(u) : s[p + i - 1] = u[i]
<1>1. SUFFICES ASSUME p \in 1..(Len(s) - Len(u) + 1)
               PROVE  SubSeq(s, p, p + Len(u) - 1) = u <=> \A i \in 1..Len(u) : s[p + i - 1] = u[i]
  BY DEF Occurs
<1> DEFINE m == Len(u)
           x == SubSeq(s, p, p + m - 1)
<1>2. Len(s) \in Nat /\ m \in Nat /\ p \in Nat \ {0} /\ p + m - 1 =< Len(s)
  BY <1>1
<1>3. CASE m = 0
  <2>1. u = <<>> /\ 1..m = {}
    BY <1>2, <1>3
  <2>2. x = <<>>
    <3>1. p \in Int /\ p + m - 1 \in Int /\ p + m - 1 < p
      BY <1>2, <1>3
    <3>2. QED
      BY <3>1, SubSeqEmpty
  <2>3. QED
    BY <2>1, <2>2
<1>4. CASE m # 0
  <2>1. p \in 1..Len(s)
    BY <1>2, <1>4
  <2> HIDE DEF m
  <2>2. x \in Seq(Int) /\ Len(x) = m /\ \A i \in 1..m : x[i] = s[p + i - 1]
    BY <1>2, <2>1, PartFacts
  <2> HIDE DEF x
  <2>3. x = u <=> \A i \in 1..m : x[i] = u[i]
    <3>1. ASSUME \A i \in 1..m : x[i] = u[i]
          PROVE  x = u
      BY <2>2, <3>1, SeqEqual DEF m
    <3>2. QED
      BY <3>1
  <2>4. QED
    BY <2>2, <2>3 DEF x, m
<1>5. QED
  BY <1>3, <1>4

LEMMA StartswithRight ==
    ASSUME NEW s, IsText(s), NEW t, IsText(t)
    PROVE  Startswith(s, t) <=> 1 \in Occurs(s, Body(t))
<1> DEFINE max == Len(t) - 1
<1>1. /\ s \in Seq(Int) /\ Len(s) \in Nat \ {0} /\ Len(t) \in Nat \ {0} /\ max \in Nat
      /\ \A i \in 1..Len(s) : s[i] \in Int
      /\ \A i \in 1..Len(t) : t[i] \in Int /\ (t[i] = NUL <=> i = Len(t))
  BY TextFacts
<1>2. Body(t) \in Seq(Int) /\ Len(Body(t)) = max /\ \A i \in 1..max : Body(t)[i] = t[i]
  BY BodyFacts
<1>3. Startswith(s, t) <=> Strncmp(s, t, max) = 0
  BY StrlenIs DEF Startswith
<1> HIDE DEF max
<1>4. PICK k : PartsAt(s, t, max, k)
  BY <1>1, StrncmpStops
<1>5. /\ k \in 1..Len(s) /\ k =< Len(t) /\ k \in Nat \ {0} /\ k \in 1..Len(t) /\ max = Len(t) - 1
      /\ \A r \in 1..(k - 1) : s[r] = t[r]
      /\ k > max \/ s[k] = NUL \/ s[k] # t[k]
      /\ Strncmp(s, t, max) = IF k > max THEN 0 ELSE s[k] - t[k]
  BY <1>1, <1>4 DEF PartsAt, max
<1>6. 1 \in Occurs(s, Body(t)) <=> /\ 1 \in 1..(Len(s) - max + 1)
                                   /\ \A i \in 1..max : s[1 + i - 1] = Body(t)[i]
  <2> DEFINE u == Body(t)
  <2>1. u \in Seq(Int) /\ Len(u) = max
    BY <1>2
  <2> HIDE DEF u
  <2>2. 1 \in Occurs(s, u) <=> /\ 1 \in 1..(Len(s) - Len(u) + 1)
                               /\ \A i \in 1..Len(u) : s[1 + i - 1] = u[i]
    <3>1. \A p : p \in Occurs(s, u) <=> /\ p \in 1..(Len(s) - Len(u) + 1)
                                         /\ \A i \in 1..Len(u) : s[p + i - 1] = u[i]
      BY <1>1, <2>1, OccursMeans
    <3>2. QED
      BY <3>1, Zenon
  <2>3. QED
    BY <2>1, <2>2 DEF u
<1>7. \A i \in 1..max : 1 + i - 1 = i
  BY <1>1
<1>8. CASE k > max
  <2>1. k = Len(t) /\ 1 \in 1..(Len(s) - max + 1) /\ \A i \in 1..max : i \in 1..(k - 1)
    BY <1>1, <1>5, <1>8
  <2>2. \A i \in 1..max : s[1 + i - 1] = Body(t)[i]
    BY <1>2, <1>5, <1>7, <2>1
  <2>3. QED
    BY <1>3, <1>5, <1>6, <1>8, <2>1, <2>2
<1>9. CASE ~(k > max)
  <2>1. k \in 1..max /\ k # Len(t)
    BY <1>1, <1>5, <1>9
  <2>2. t[k] # NUL /\ t[k] \in Int /\ s[k] \in Int
    BY <1>1, <1>5, <2>1
  <2>3. s[k] # t[k]
    BY <1>5, <1>9, <2>2
  <2>4. Strncmp(s, t, max) # 0
    BY <1>5, <1>9, <2>2, <2>3
  <2>5. s[1 + k - 1] # Body(t)[k]
    BY <1>2, <1>7, <2>1, <2>3
  <2>6. QED
    BY <1>3, <1>6, <2>1, <2>4, <2>5
<1>10. QED
  BY <1>8, <1>9

\* strcmp finds equal texts equal, and no others.
LEMMA StrcmpEqual ==
    ASSUME NEW a, IsText(a), NEW b, IsText(b)
    PROVE  Strcmp(a, b) = 0 <=> a = b
<1>1. Sign(Strcmp(a, b)) = Order(a, b)
  BY StrcmpRight
<1>2. ASSUME a # b PROVE Order(a, b) # 0
  BY <1>2 DEF Order
<1>3. ASSUME a = b PROVE Strcmp(a, b) = 0
  <2> DEFINE k == Loop(1, Len(a), LAMBDA i : a[i] # NUL /\ a[i] = a[i])
             G(i) == a[i] # NUL /\ a[i] = a[i]
             P(q) == ~G(q) /\ \A r \in 1..(q - 1) : G(r)
             c == CHOOSE q \in 1..Len(a) : P(q)
  <2>1. Len(a) \in Nat \ {0} /\ \A i \in 1..Len(a) : a[i] \in Int /\ (a[i] = NUL <=> i = Len(a))
    BY TextFacts
  <2>2. Len(a) \in 1..Len(a) /\ P(Len(a))
    BY <2>1
  <2>3. c \in 1..Len(a)
    <3> HIDE DEF P
    <3>1. QED
      BY <2>2
  <2>4. Strcmp(a, a) = a[c] - a[c]
    BY Zenon DEF Strcmp, Loop
  <2> HIDE DEF c
  <2>5. a[c] \in Int
    BY <2>1, <2>3
  <2>6. QED
    BY <1>3, <2>4, <2>5
<1>4. Sign(0) = 0
  BY DEF Sign
<1>5. QED
  BY <1>1, <1>2, <1>3, <1>4

LEMMA EndswithRight ==
    ASSUME NEW s, IsText(s), NEW t, IsText(t)
    PROVE  Endswith(s, t) <=> Len(s) - Len(t) + 1 \in Occurs(s, t)
<1> DEFINE d == Len(s) - Len(t)
           x == SubSeq(s, d + 1, Len(s))
<1>1. /\ s \in Seq(Chars) /\ s \in Seq(Int) /\ t \in Seq(Int) /\ Len(s) \in Nat \ {0} /\ Len(t) \in Nat \ {0}
      /\ \A i \in 1..Len(s) : s[i] = NUL <=> i = Len(s)
  BY TextFacts
<1>2. d \in Int /\ (Len(s) - 1) - (Len(t) - 1) = d
  BY <1>1
<1>3. Endswith(s, t) <=> d >= 0 /\ Strcmp(x, t) = 0
  <2>1. Strlen(s) - Strlen(t) = d
    <3>1. Strlen(s) = Len(s) - 1 /\ Strlen(t) = Len(t) - 1
      BY StrlenIs
    <3>2. QED
      BY <1>2, <3>1
  <2>2. QED
    BY <2>1, Zenon DEF Endswith
<1>4. d + 1 \in Occurs(s, t) <=> d + 1 \in 1..(d + 1) /\ SubSeq(s, d + 1, (d + 1) + Len(t) - 1) = t
  BY <1>1 DEF Occurs
<1>5. (d + 1) + Len(t) - 1 = Len(s) /\ (d + 1 \in 1..(d + 1) <=> d >= 0)
  <2>1. (d + 1) + Len(t) - 1 = Len(s)
    BY <1>1
  <2> HIDE DEF d
  <2>2. d + 1 \in 1..(d + 1) <=> d >= 0
    BY <1>2
  <2>3. QED
    BY <2>1, <2>2
<1>6. d + 1 \in Occurs(s, t) <=> d >= 0 /\ x = t
  BY <1>4, <1>5
<1>7. ASSUME d >= 0 PROVE IsText(x)
  <2>1. d + 1 \in 1..Len(s) /\ (d + 1) + Len(t) - 1 =< Len(s) /\ Len(t) \in Nat
    BY <1>1, <1>7
  <2> DEFINE a == d + 1
             m == Len(t)
             y == SubSeq(s, a, a + m - 1)
  <2>2. a \in 1..Len(s) /\ m \in Nat \ {0} /\ a + m - 1 =< Len(s) /\ a + m - 1 = Len(s)
    BY <1>1, <1>5, <2>1
  <2>3. x = y
    BY <1>5
  <2> HIDE DEF a, m
  <2>4. y \in Seq(Chars) /\ Len(y) = m /\ \A i \in 1..m : y[i] = s[a + i - 1]
    BY <1>1, <2>2, PartFacts
  <2> HIDE DEF y
  <2>5. ASSUME NEW i \in 1..m
        PROVE  y[i] = NUL <=> i = m
    <3>1. a \in Int /\ m \in Int /\ i \in Int /\ 1 =< a /\ 1 =< i /\ i =< m /\ Len(s) \in Int
      BY <1>1, <2>2
    <3>2. a + i - 1 \in 1..Len(s)
      BY <2>2, <3>1
    <3>3. a + i - 1 = Len(s) <=> i = m
      BY <2>2, <3>1
    <3>4. QED
      BY <1>1, <2>4, <3>2, <3>3
  <2>6. y # <<>>
    BY <2>2, <2>4
  <2>7. IsText(y)
    BY <2>4, <2>5, <2>6 DEF IsText
  <2>8. QED
    BY <2>3, <2>7
<1> HIDE DEF x
<1>8. QED
  BY <1>3, <1>6, <1>7, StrcmpEqual

LEMMA NeedleAt ==
    ASSUME NEW s, IsText(s), NEW t, IsText(t), NEW h \in 1..Len(s)
    PROVE  t[StopIn(s, t, h)] = NUL <=> h \in Occurs(s, Body(t))
<1> DEFINE G(i) == s[h + i - 1] # NUL /\ t[i] # NUL /\ s[h + i - 1] = t[i]
           P(q) == ~G(q) /\ \A r \in 1..(q - 1) : G(r)
           c == CHOOSE q \in 1..Len(t) : P(q)
           set == {i \in Int : G(i)}
           u == Body(t)
           max == Len(t) - 1
<1>1. /\ s \in Seq(Int) /\ Len(s) \in Nat \ {0} /\ Len(t) \in Nat \ {0} /\ s[Len(s)] = NUL /\ t[Len(t)] = NUL
      /\ \A i \in 1..Len(t) : t[i] = NUL <=> i = Len(t)
  BY TextFacts
<1>2. max \in Nat /\ h \in Nat \ {0}
  BY <1>1
<1>3. u \in Seq(Int) /\ Len(u) = max /\ \A i \in 1..max : u[i] = t[i]
  BY BodyFacts
<1>4. PICK l \in 1..Len(t) : FirstOutside(l, 1, set)
  <2>1. Len(t) \in 1..Len(t) /\ Len(t) \notin set /\ 1 \in Nat
    BY <1>1
  <2> HIDE DEF set
  <2>2. QED
    BY <1>1, <2>1, LoopEnds
<1>5. P(l)
  <2>1. l \in Int /\ \A r \in 1..(l - 1) : r \in Int
    BY <1>1
  <2>2. QED
    BY <1>4, <2>1 DEF FirstOutside
<1>6. c \in 1..Len(t) /\ P(c)
  <2> HIDE DEF P
  <2>1. QED
    BY <1>5
<1>7. StopIn(s, t, h) = c
  BY Zenon DEF StopIn, Loop
<1> HIDE DEF c, u
<1>8. h \in Occurs(s, u) <=> /\ h \in 1..(Len(s) - Len(u) + 1)
                             /\ \A i \in 1..Len(u) : s[h + i - 1] = u[i]
  <2>1. \A p : p \in Occurs(s, u) <=> /\ p \in 1..(Len(s) - Len(u) + 1)
                                       /\ \A i \in 1..Len(u) : s[p + i - 1] = u[i]
    BY <1>1, <1>3, OccursMeans
  <2>2. QED
    BY <2>1, Zenon
<1>9. ASSUME t[c] = NUL
      PROVE  h \in Occurs(s, u)
  <2>1. c = Len(t)
    BY <1>1, <1>6, <1>9
  <2>2. h + max =< Len(s)
    <3>1. PICK z \in Nat \ {0} : z = Len(s) - h + 1 /\ h + z - 1 = Len(s)
      <4>1. Len(s) - h + 1 \in Nat \ {0} /\ h + (Len(s) - h + 1) - 1 = Len(s)
        BY <1>1, <1>2
      <4>2. QED
        BY <4>1
    <3>2. s[h + z - 1] = NUL
      BY <1>1, <3>1
    <3>3. z \notin 1..(c - 1)
      BY <1>6, <3>2
    <3>4. c =< z
      BY <1>1, <1>6, <3>1, <3>3
    <3>5. QED
      BY <1>1, <1>2, <2>1, <3>1, <3>4
  <2>3. h \in 1..(Len(s) - Len(u) + 1)
    BY <1>1, <1>2, <1>3, <2>2
  <2>4. \A i \in 1..Len(u) : i \in 1..(c - 1) /\ i \in 1..max
    BY <1>1, <1>3, <2>1
  <2>5. \A i \in 1..Len(u) : s[h + i - 1] = u[i]
    BY <1>3, <1>6, <2>4
  <2>6. QED
    BY <1>8, <2>3, <2>5
<1>10. ASSUME h \in Occurs(s, u), t[c] # NUL
       PROVE  FALSE
  <2>1. c \in 1..max
    BY <1>1, <1>6, <1>10
  <2>2. c \in 1..Len(u) /\ u[c] = t[c]
    BY <1>3, <2>1
  <2>3. s[h + c - 1] = t[c]
    BY <1>8, <1>10, <2>2
  <2>4. G(c)
    BY <1>10, <2>3
  <2>5. QED
    BY <1>6, <2>4
<1>11. QED
  BY <1>7, <1>9, <1>10 DEF u

LEMMA StrstrRight ==
    ASSUME NEW s, IsText(s), NEW t, IsText(t)
    PROVE  Strstr(s, t) = Least(Occurs(s, Body(t)))
<1> DEFINE G(i) == s[i] # NUL /\ t[StopIn(s, t, i)] # NUL
           P(q) == ~G(q) /\ \A r \in 1..(q - 1) : G(r)
           p == CHOOSE q \in 1..Len(s) : P(q)
           set == {i \in Int : G(i)}
           u == Body(t)
           max == Len(t) - 1
           places == Occurs(s, u)
<1>1. /\ s \in Seq(Int) /\ Len(s) \in Nat \ {0} /\ Len(t) \in Nat \ {0} /\ s[Len(s)] = NUL
      /\ \A i \in 1..Len(s) : s[i] = NUL <=> i = Len(s)
      /\ \A i \in 1..Len(t) : t[i] = NUL <=> i = Len(t)
  BY TextFacts
<1>2. max \in Nat
  BY <1>1
<1>3. u \in Seq(Int) /\ Len(u) = max /\ \A i \in 1..max : u[i] = t[i]
  BY BodyFacts
<1>4. PICK l \in 1..Len(s) : FirstOutside(l, 1, set)
  <2>1. Len(s) \in 1..Len(s) /\ Len(s) \notin set /\ 1 \in Nat
    BY <1>1
  <2> HIDE DEF set
  <2>2. QED
    BY <1>1, <2>1, LoopEnds
<1>5. P(l)
  <2>1. l \in Int /\ \A r \in 1..(l - 1) : r \in Int
    BY <1>1
  <2>2. QED
    BY <1>4, <2>1 DEF FirstOutside
<1>6. p \in 1..Len(s) /\ P(p)
  <2> HIDE DEF P
  <2>1. QED
    BY <1>5
<1>7. Strstr(s, t) = IF t[1] = NUL THEN 1 ELSE IF s[p] = NUL THEN 0 ELSE p
  BY Zenon DEF Strstr, StopIn, Loop
<1>8. \A h \in 1..Len(s) : t[StopIn(s, t, h)] = NUL <=> h \in places
  BY NeedleAt
<1> HIDE DEF p, u
<1>9. \A h : h \in places <=> /\ h \in 1..(Len(s) - Len(u) + 1)
                              /\ \A i \in 1..Len(u) : s[h + i - 1] = u[i]
  BY <1>1, <1>3, OccursMeans
<1> HIDE DEF places
<1>10. places \in SUBSET Nat /\ \A h \in places : 1 =< h
  BY <1>1, <1>2, <1>3, <1>9
<1>11. CASE t[1] = NUL
  <2>1. Len(t) = 1
    <3>1. 1 \in 1..Len(t)
      BY <1>1
    <3>2. QED
      BY <1>1, <1>11, <3>1
  <2>2. Len(u) = 0 /\ 1..Len(u) = {} /\ 1 \in 1..(Len(s) - Len(u) + 1)
    BY <1>1, <1>3, <2>1
  <2>3. 1 \in places
    BY <1>9, <2>2
  <2>4. Least(places) = 1
    BY <1>10, <2>3, LeastIs
  <2>5. QED
    BY <1>7, <1>11, <2>4 DEF places, u
<1>12. CASE t[1] # NUL
  <2>1. Len(t) # 1 /\ 1 \in 1..Len(u) /\ 1 \in 1..max /\ Len(u) >= 1
    <3>1. 1 \in 1..Len(t)
      BY <1>1
    <3>2. Len(t) # 1
      BY <1>1, <1>12, <3>1
    <3>3. QED
      BY <1>1, <1>3, <3>2
  <2>2. ASSUME NEW h \in places
        PROVE  h \in 1..Len(s) /\ s[h] # NUL
    <3>1. h \in 1..Len(s) /\ h + 1 - 1 = h
      BY <1>1, <1>3, <1>9, <2>1
    <3>2. s[h + 1 - 1] = u[1]
      BY <1>9, <2>1, Zenon
    <3>3. u[1] = t[1]
      BY <1>3, <2>1
    <3>4. QED
      BY <1>12, <3>1, <3>2, <3>3
  <2>3. \A h \in places : p =< h
    <3>1. ASSUME NEW h \in places, h < p
          PROVE  FALSE
      <4>1. h \in 1..(p - 1) /\ h \in 1..Len(s)
        BY <1>1, <1>6, <2>2, <3>1
      <4>2. t[StopIn(s, t, h)] # NUL
        BY <1>6, <4>1
      <4>3. QED
        BY <1>8, <4>1, <4>2
    <3>2. QED
      BY <1>1, <1>6, <2>2, <3>1
  <2>4. CASE s[p] = NUL
    <3>1. p = Len(s)
      BY <1>1, <1>6, <2>4
    <3>2. places = {}
      <4>1. \A h \in places : h = p
        BY <1>1, <2>2, <2>3, <3>1
      <4>2. QED
        BY <2>2, <2>4, <4>1
    <3>3. QED
      BY <1>7, <1>12, <2>4, <3>2 DEF Least, places, u
  <2>5. CASE s[p] # NUL
    <3>1. t[StopIn(s, t, p)] = NUL
      BY <1>6, <2>5
    <3>2. p \in places
      BY <1>6, <1>8, <3>1
    <3>3. Least(places) = p
      BY <1>10, <2>3, <3>2, LeastIs
    <3>4. QED
      BY <1>7, <1>12, <2>5, <3>3 DEF places, u
  <2>6. QED
    BY <2>4, <2>5
<1>13. QED
  BY <1>11, <1>12

(***************************************************************************)
(* The comparisons are the order of the dictionary and the searches find   *)
(* the first place, or the last, for all pairs of strings and all limits.  *)
(***************************************************************************)
THEOREM SearchesAreRight == Spec => []SearchesRight
<1>1. Init => SearchInv
  <2>1. SUFFICES ASSUME Init PROVE SearchInv
    OBVIOUS
  <2>2. CASE SearchInit
    BY <2>2, SearchAssumption DEF SearchInit, SearchInv
  <2>3. CASE SearchRest
    <3>1. <<NUL>> \in Seq(Chars) /\ <<NUL>> # <<>> /\ Len(<<NUL>>) = 1 /\ <<NUL>>[1] = NUL
      BY DEF Chars, NUL
    <3>2. \A i \in 1..1 : i = 1
      OBVIOUS
    <3>3. IsText(<<NUL>>)
      BY <3>1, <3>2 DEF IsText
    <3>4. 0 \in 0..1
      OBVIOUS
    <3>5. QED
      BY <2>3, <3>1, <3>3, <3>4 DEF SearchRest, SearchInv
  <2>4. QED
    BY <2>1, <2>2, <2>3 DEF Init
<1>2. SearchInv /\ [Next]_vars => SearchInv'
  <2>1. [Next]_vars => UNCHANGED <<s1, s2, limit>>
    BY DEF Next, vars, searchVars
  <2>2. QED
    BY <2>1 DEF SearchInv
<1>3. SearchInv => SearchesRight
  <2>1. SUFFICES ASSUME SearchInv PROVE SearchesRight
    OBVIOUS
  <2>2. IsText(s1) /\ IsText(s2) /\ limit \in 0..Len(s1) /\ limit \in Nat /\ CString(s1)
    BY <2>1, TextFacts DEF SearchInv
  <2>3. /\ Sign(Strcmp(s1, s2)) = Order(s1, s2)
        /\ Sign(Strncmp(s1, s2, limit)) = Order(Cut(s1, limit), Cut(s2, limit))
        /\ Sign(Strcasecmp(s1, s2)) = Order(Lower(s1), Lower(s2))
    BY <2>2, StrcmpRight, StrncmpRight, StrcasecmpRight
  <2>4. limit =< Len(s2) =>
          Sign(Memcmp(s1, s2, limit)) = Order(SubSeq(s1, 1, limit), SubSeq(s2, 1, limit))
    BY <2>2, MemcmpRight
  <2>5. Strnlen(s1, limit) = IF limit < Len(s1) THEN limit ELSE Len(s1) - 1
    BY <2>2, StrnlenFact
  <2>6. /\ Strstr(s1, s2) = Least(Occurs(s1, Body(s2)))
        /\ Startswith(s1, s2) <=> 1 \in Occurs(s1, Body(s2))
        /\ Endswith(s1, s2) <=> Len(s1) - Len(s2) + 1 \in Occurs(s1, s2)
    BY <2>2, StrstrRight, StartswithRight, EndswithRight
  <2>7. ASSUME NEW c
        PROVE  LET hits == {k \in 1..Len(s1) : s1[k] = c}
               IN  /\ Strchr(s1, c) = Least(hits)
                   /\ \A k \in hits : k =< Strrchr(s1, c)
                   /\ Strrchr(s1, c) \in hits \cup {0}
                   /\ Memchr(s1, c, limit) = Least(hits \cap (1..limit))
    <3> DEFINE hits == {k \in 1..Len(s1) : s1[k] = c}
    <3>1. Strchr(s1, c) = Least(hits)
      BY <2>2, StrchrRight
    <3>2. (\A k \in hits : k =< Strrchr(s1, c)) /\ Strrchr(s1, c) \in hits \cup {0}
      BY <2>2, StrrchrRight
    <3>3. Memchr(s1, c, limit) = Least(hits \cap (1..limit))
      BY <2>2, MemchrRight
    <3>4. QED
      BY <3>1, <3>2, <3>3
  <2>8. Strpbrk(s1, s2) = Least({k \in 1..(Len(s1) - 1) : \E i \in 1..Len(s2) : s1[k] = s2[i]})
    BY <2>2, StrpbrkRight
  <2>9. QED
    BY <2>3, <2>4, <2>5, <2>6, <2>7, <2>8, Zenon DEF SearchesRight
<1>4. QED
  BY <1>1, <1>2, <1>3, PTL DEF Spec

-----------------------------------------------------------------------------
(***************************************************************************)
(* gmtime and mktime.                                                      *)
(***************************************************************************)
\* The for loop of mktime.
LEMMA AddUpSums ==
    ASSUME NEW before, NEW length, NEW lo \in Nat, NEW hi \in Nat, lo =< hi,
           Sums(before, length, lo, hi)
    PROVE  AddUp(lo, hi, length) = before[hi]
<1> DEFINE upTo[u \in lo..hi] == IF u = lo THEN 0 ELSE upTo[u - 1] + length[u - 1]
           g == [u \in lo..hi |-> before[u]]
<1>1. AddUp(lo, hi, length) = upTo[hi]
  BY DEF AddUp
<1>2. ASSUME NEW u \in lo..hi
      PROVE  g[u] = IF u = lo THEN 0 ELSE g[u - 1] + length[u - 1]
  <2>1. CASE u = lo
    BY <2>1 DEF Sums
  <2>2. CASE u # lo
    <3>1. u - 1 \in lo..(hi - 1) /\ u - 1 \in lo..hi /\ (u - 1) + 1 = u
      BY <2>2
    <3>2. before[u] = before[u - 1] + length[u - 1]
      BY <3>1 DEF Sums
    <3>3. QED
      BY <2>2, <3>1, <3>2
  <2>3. QED
    BY <2>1, <2>2
<1>3. g = [u \in lo..hi |-> IF u = lo THEN 0 ELSE g[u - 1] + length[u - 1]]
  BY <1>2
<1>4. upTo = [u \in lo..hi |-> IF u = lo THEN 0 ELSE upTo[u - 1] + length[u - 1]]
  <2> HIDE DEF g
  <2>1. QED
    BY <1>3, Zenon
<1> HIDE DEF upTo, g
<1>5. \A u \in lo..hi : upTo[u] = IF u = lo THEN 0 ELSE upTo[u - 1] + length[u - 1]
  BY <1>4
<1> DEFINE S == {u \in lo..hi : upTo[u] = before[u]}
<1>6. lo \in S
  <2>1. lo \in lo..hi
    OBVIOUS
  <2>2. QED
    BY <1>5, <2>1 DEF Sums
<1>7. ASSUME NEW u \in lo..(hi - 1), u \in S PROVE u + 1 \in S
  <2>1. u \in lo..hi /\ u + 1 \in lo..hi /\ u + 1 # lo /\ (u + 1) - 1 = u
    OBVIOUS
  <2>2. upTo[u + 1] = upTo[u] + length[u]
    BY <1>5, <2>1
  <2>3. before[u + 1] = before[u] + length[u]
    BY DEF Sums
  <2>4. QED
    BY <1>7, <2>1, <2>2, <2>3
<1>8. lo \in Int /\ hi \in Int /\ hi \in lo..hi
  OBVIOUS
<1> HIDE DEF S
<1>9. \A u \in lo..hi : u \in S
  BY <1>6, <1>7, <1>8, IntervalInduction
<1>10. hi \in S
  BY <1>8, <1>9
<1>11. QED
  BY <1>1, <1>10 DEF S

\* The while loop of gmtime stops where the days that remain fit.
LEMMA CountOffStops ==
    ASSUME NEW before, NEW length, NEW lo \in Nat, NEW turns \in Nat, NEW stop \in Nat,
           lo =< stop, stop =< lo + turns,
           Sums(before, length, lo, stop), length[stop] \in Nat,
           NEW days \in Nat, NEW rest \in Nat,
           days = before[stop] + rest, rest < length[stop]
    PROVE  CountOff(lo, days, length, turns) = [unit |-> stop, rest |-> rest]
<1> DEFINE next == [date \in [unit : Nat, rest : Nat] |->
                      IF date.rest < length[date.unit] THEN date
                      ELSE [unit |-> date.unit + 1, rest |-> date.rest - length[date.unit]]]
           turn[k \in 0..turns] ==
             IF k = 0 THEN [unit |-> lo, rest |-> days] ELSE next[turn[k - 1]]
           turnAt(k) == IF lo + k < stop THEN [unit |-> lo + k, rest |-> days - before[lo + k]]
                    ELSE [unit |-> stop, rest |-> rest]
           g == [k \in 0..turns |-> turnAt(k)]
<1>1. CountOff(lo, days, length, turns) = turn[turns]
  BY DEF CountOff
<1>2. turnAt(0) = [unit |-> lo, rest |-> days]
  <2>1. before[lo] = 0
    BY DEF Sums
  <2>2. QED
    BY <2>1
<1>3. ASSUME NEW k \in 1..turns PROVE next[turnAt(k - 1)] = turnAt(k)
  <2>1. k - 1 \in Nat /\ lo + (k - 1) = (lo + k) - 1
    OBVIOUS
  <2>2. CASE lo + (k - 1) < stop
    <3> DEFINE u == lo + (k - 1)
    <3>1. u \in Nat /\ u \in lo..stop /\ u + 1 \in lo..stop /\ u \in lo..(stop - 1) /\ u + 1 = lo + k
      BY <2>1, <2>2
    <3>2. /\ before[u] \in Nat /\ length[u] \in Nat /\ before[u + 1] = before[u] + length[u]
          /\ before[u + 1] \in Nat /\ before[stop] \in Nat
      <4>1. stop \in lo..stop
        OBVIOUS
      <4> HIDE DEF u
      <4>2. QED
        BY <3>1, <4>1 DEF Sums
    <3>3. before[u + 1] =< before[stop]
      <4>1. stop \in (u + 1)..stop
        BY <3>1
      <4> HIDE DEF u
      <4>2. \A v \in (u + 1)..stop : before[u + 1] =< before[v]
        BY <3>1, SumsGrow
      <4>3. QED
        BY <4>1, <4>2
    <3>4. turnAt(k - 1) = [unit |-> u, rest |-> days - before[u]]
      BY <2>2
    <3> HIDE DEF u
    <3>5. days - before[u] \in Nat /\ ~(days - before[u] < length[u])
      BY <3>2, <3>3
    <3>6. [unit |-> u, rest |-> days - before[u]] \in [unit : Nat, rest : Nat]
      BY <3>1, <3>5
    <3>7. next[turnAt(k - 1)] = [unit |-> u + 1, rest |-> (days - before[u]) - length[u]]
      BY <3>4, <3>5, <3>6
    <3>8. (days - before[u]) - length[u] = days - before[u + 1]
      BY <3>2
    <3>9. CASE u + 1 < stop
      BY <3>1, <3>7, <3>8, <3>9
    <3>10. CASE ~(u + 1 < stop)
      <4>1. u + 1 = stop
        BY <3>1, <3>10
      <4>2. days - before[u + 1] = rest
        BY <3>2, <4>1
      <4>3. QED
        BY <3>1, <3>7, <3>8, <3>10, <4>1, <4>2
    <3>11. QED
      BY <3>9, <3>10
  <2>3. CASE ~(lo + (k - 1) < stop)
    <3>1. turnAt(k - 1) = [unit |-> stop, rest |-> rest]
      BY <2>3
    <3>2. turnAt(k) = [unit |-> stop, rest |-> rest]
      BY <2>1, <2>3
    <3>3. [unit |-> stop, rest |-> rest] \in [unit : Nat, rest : Nat]
      OBVIOUS
    <3>4. QED
      BY <3>1, <3>2, <3>3
  <2>4. QED
    BY <2>2, <2>3
<1>4. turnAt(turns) = [unit |-> stop, rest |-> rest]
  OBVIOUS
<1> HIDE DEF next
<1>5. ASSUME NEW k \in 0..turns
      PROVE  g[k] = IF k = 0 THEN [unit |-> lo, rest |-> days] ELSE next[g[k - 1]]
  <2>1. k # 0 => k \in 1..turns /\ k - 1 \in 0..turns
    OBVIOUS
  <2> HIDE DEF turnAt
  <2>2. CASE k = 0
    BY <1>2, <2>2
  <2>3. CASE k # 0
    BY <1>3, <2>1, <2>3
  <2>4. QED
    BY <2>2, <2>3
<1> HIDE DEF turnAt
<1>6. g = [k \in 0..turns |-> IF k = 0 THEN [unit |-> lo, rest |-> days] ELSE next[g[k - 1]]]
  BY <1>5
<1>7. turn = [k \in 0..turns |-> IF k = 0 THEN [unit |-> lo, rest |-> days] ELSE next[turn[k - 1]]]
  <2> HIDE DEF g
  <2>1. QED
    BY <1>6, Zenon
<1> HIDE DEF turn, g
<1>8. \A k \in 0..turns : turn[k] = IF k = 0 THEN [unit |-> lo, rest |-> days] ELSE next[turn[k - 1]]
  BY <1>7
<1> DEFINE S == {k \in 0..turns : turn[k] = turnAt(k)}
<1>9. 0 \in S
  BY <1>2, <1>8
<1>10. ASSUME NEW k \in 0..(turns - 1), k \in S PROVE k + 1 \in S
  <2>1. k + 1 \in 0..turns /\ k + 1 # 0 /\ (k + 1) - 1 = k /\ k + 1 \in 1..turns
    OBVIOUS
  <2>2. turn[k + 1] = next[turn[k]]
    BY <1>8, <2>1
  <2>3. next[turnAt(k)] = turnAt(k + 1)
    BY <1>3, <2>1
  <2>4. QED
    BY <1>10, <2>1, <2>2, <2>3
<1>11. turns \in Int /\ 0 \in Int /\ turns \in 0..turns
  OBVIOUS
<1> HIDE DEF S
<1>12. \A k \in 0..turns : k \in S
  BY <1>9, <1>10, <1>11, IntervalInduction
<1>13. turns \in S
  BY <1>11, <1>12
<1>14. QED
  BY <1>1, <1>4, <1>13 DEF S

\* The code's rule for leap years and the reference's are the same.
LEMMA LeapYears ==
    ASSUME NEW year \in Nat
    PROVE  LeapDay(year) \in {0, 1} /\ DaysInYear(year) = 365 + LeapDay(year)
           /\ (IsLeapYear(year) <=> LeapDay(year) = 1)
<1>1. year % 400 = 0 => year % 4 = 0
  OBVIOUS
<1>2. LeapDay(year) \in {0, 1} /\ (IsLeapYear(year) <=> LeapDay(year) = 1)
  BY <1>1 DEF LeapDay, IsLeapYear
<1>3. QED
  BY <1>2 DEF DaysInYear

\* So are the lengths of months.
LEMMA MonthLengths ==
    ASSUME NEW year \in Nat, NEW mon \in 0..11
    PROVE  GetDaysInMonth(mon, year) = LastDay(mon, year) /\ LastDay(mon, year) \in 28..31
<1>1. LeapDay(year) \in {0, 1} /\ (IsLeapYear(year) <=> LeapDay(year) = 1)
  BY LeapYears
<1>2. mon \in {0, 1, 2, 3, 4, 5, 6, 7, 8, 9, 10, 11}
  OBVIOUS
<1>3. LastDay(mon, year) = IF mon = 1 THEN 28 + LeapDay(year)
                           ELSE IF mon \in {3, 5, 8, 10} THEN 30 ELSE 31
  BY DEF LastDay
<1>4. CASE mon = 1
  BY <1>1, <1>3, <1>4 DEF GetDaysInMonth, DaysInMonth
<1>5. CASE mon # 1
  <2>1. GetDaysInMonth(mon, year) = DaysInMonth[mon + 1]
    BY <1>5 DEF GetDaysInMonth
  <2>2. DaysInMonth[mon + 1] = IF mon \in {3, 5, 8, 10} THEN 30 ELSE 31
    BY <1>2, <1>5 DEF DaysInMonth
  <2>3. QED
    BY <1>3, <1>5, <2>1, <2>2
<1>6. QED
  BY <1>4, <1>5

LEMMA NextYear ==
    ASSUME NEW year \in Nat, year >= 1970
    PROVE  /\ YearsBefore(year) \in Nat /\ YearsBefore(year) >= 365 * (year - 1970)
           /\ YearsBefore(year + 1) = YearsBefore(year) + DaysInYear(year)
<1> DEFINE A == {y \in 1970..(year - 1) : LeapDay(y) = 1}
           B == {y \in 1970..((year + 1) - 1) : LeapDay(y) = 1}
<1>1. IsFiniteSet(A)
  <2>1. IsFiniteSet(1970..(year - 1))
    BY FS_Interval
  <2>2. A \subseteq 1970..(year - 1)
    OBVIOUS
  <2>3. QED
    BY <2>1, <2>2, FS_Subset
<1>2. Cardinality(A) \in Nat
  BY <1>1, FS_CardinalityType
<1>3. Cardinality(B) = Cardinality(A) + LeapDay(year)
  <2>1. CASE LeapDay(year) = 1
    <3>1. B = A \cup {year} /\ year \notin A
      BY <2>1
    <3> HIDE DEF A, B
    <3>2. Cardinality(A \cup {year}) = Cardinality(A) + 1
      BY <1>1, <3>1, FS_AddElement, SMTT(30)
    <3>3. QED
      BY <2>1, <3>1, <3>2
  <2>2. CASE LeapDay(year) = 0
    <3>1. B = A
      BY <2>2
    <3>2. QED
      BY <1>2, <2>2, <3>1
  <2>3. QED
    BY <2>1, <2>2, LeapYears
<1>4. /\ YearsBefore(year) = 365 * (year - 1970) + Cardinality(A)
      /\ YearsBefore(year + 1) = 365 * ((year + 1) - 1970) + Cardinality(B)
  BY DEF YearsBefore
<1>5. DaysInYear(year) = 365 + LeapDay(year) /\ LeapDay(year) \in {0, 1}
  BY LeapYears
<1> HIDE DEF A, B
<1>6. QED
  BY <1>2, <1>3, <1>4, <1>5

LEMMA YearSums ==
    ASSUME NEW year \in Nat, year >= 1970
    PROVE  Sums([y \in Nat |-> YearsBefore(y)], [y \in Nat |-> DaysInYear(y)], 1970, year)
<1>1. YearsBefore(1970) = 0
  <2>1. {y \in 1970..(1970 - 1) : LeapDay(y) = 1} = {}
    OBVIOUS
  <2>2. Cardinality({y \in 1970..(1970 - 1) : LeapDay(y) = 1}) = 0
    BY <2>1, FS_EmptySet
  <2>3. QED
    BY <2>2 DEF YearsBefore
<1>2. \A u \in 1970..year : u \in Nat /\ u >= 1970 /\ YearsBefore(u) \in Nat
  BY NextYear
<1>3. \A u \in 1970..(year - 1) : /\ u \in Nat /\ u + 1 \in Nat /\ DaysInYear(u) \in Nat
                                  /\ YearsBefore(u + 1) = YearsBefore(u) + DaysInYear(u)
  <2>1. SUFFICES ASSUME NEW u \in 1970..(year - 1)
                 PROVE  /\ u \in Nat /\ u + 1 \in Nat /\ DaysInYear(u) \in Nat
                        /\ YearsBefore(u + 1) = YearsBefore(u) + DaysInYear(u)
    OBVIOUS
  <2>2. u \in Nat /\ u >= 1970 /\ u + 1 \in Nat
    OBVIOUS
  <2>3. DaysInYear(u) = 365 + LeapDay(u) /\ LeapDay(u) \in {0, 1}
    BY <2>2, LeapYears
  <2>4. QED
    BY <2>2, <2>3, NextYear
<1>4. QED
  BY <1>1, <1>2, <1>3 DEF Sums

\* The table of days before a month adds up the lengths of months.
LEMMA MonthTable ==
    ASSUME NEW year \in Nat, NEW mon \in 0..11
    PROVE  /\ MonthsBefore(mon, year) \in Nat
           /\ mon < 11 => MonthsBefore(mon + 1, year) = MonthsBefore(mon, year) + LastDay(mon, year)
           /\ mon = 11 => MonthsBefore(mon, year) + LastDay(mon, year) = 365 + LeapDay(year)
           /\ mon = 0 => MonthsBefore(mon, year) = 0
<1> DEFINE l == LeapDay(year)
<1>1. l \in {0, 1}
  BY LeapYears
<1>2. LastDay(mon, year) = IF mon = 1 THEN 28 + l
                           ELSE IF mon \in {3, 5, 8, 10} THEN 30 ELSE 31
  BY DEF LastDay
<1> HIDE DEF l
<1>3. \A m \in 0..11 : MonthsBefore(m, year) =
         <<0, 31, 59, 90, 120, 151, 181, 212, 243, 273, 304, 334>>[m + 1] + (IF m > 1 THEN l ELSE 0)
  BY DEF MonthsBefore, l
<1>4. \A m \in 0..11 : <<0, 31, 59, 90, 120, 151, 181, 212, 243, 273, 304, 334>>[m + 1] =
        IF m = 0 THEN 0 ELSE IF m = 1 THEN 31 ELSE IF m = 2 THEN 59 ELSE IF m = 3 THEN 90
        ELSE IF m = 4 THEN 120 ELSE IF m = 5 THEN 151 ELSE IF m = 6 THEN 181 ELSE IF m = 7 THEN 212
        ELSE IF m = 8 THEN 243 ELSE IF m = 9 THEN 273 ELSE IF m = 10 THEN 304 ELSE 334
  OBVIOUS
<1>5. \A m \in 0..11 : MonthsBefore(m, year) = (IF m > 1 THEN l ELSE 0) +
       (IF m = 0 THEN 0 ELSE IF m = 1 THEN 31 ELSE IF m = 2 THEN 59 ELSE IF m = 3 THEN 90
        ELSE IF m = 4 THEN 120 ELSE IF m = 5 THEN 151 ELSE IF m = 6 THEN 181 ELSE IF m = 7 THEN 212
        ELSE IF m = 8 THEN 243 ELSE IF m = 9 THEN 273 ELSE IF m = 10 THEN 304 ELSE 334)
  BY <1>1, <1>3, <1>4
<1>6. MonthsBefore(mon, year) \in Nat
  BY <1>1, <1>5
<1>7. mon < 11 => MonthsBefore(mon + 1, year) = MonthsBefore(mon, year) + LastDay(mon, year)
  <2>1. ASSUME mon < 11
        PROVE  mon + 1 \in 0..11 /\ mon \in {0, 1, 2, 3, 4, 5, 6, 7, 8, 9, 10}
    BY <2>1
  <2>2. QED
    BY <1>1, <1>2, <1>5, <2>1
<1>8. /\ mon = 11 => MonthsBefore(mon, year) + LastDay(mon, year) = 365 + l
      /\ mon = 0 => MonthsBefore(mon, year) = 0
  BY <1>1, <1>2, <1>5
<1>9. QED
  BY <1>6, <1>7, <1>8 DEF l

LEMMA MonthSums ==
    ASSUME NEW year \in Nat, NEW mon \in 0..11
    PROVE  Sums([m \in 0..11 |-> MonthsBefore(m, year)],
                [m \in 0..11 |-> GetDaysInMonth(m, year)], 0, mon)
<1>1. MonthsBefore(0, year) = 0
  <2>1. 0 \in 0..11
    OBVIOUS
  <2>2. \A m \in 0..11 : m = 0 => MonthsBefore(m, year) = 0
    BY MonthTable
  <2>3. QED
    BY <2>1, <2>2
<1>2. \A u \in 0..mon : u \in 0..11 /\ MonthsBefore(u, year) \in Nat
  <2>1. \A u \in 0..11 : MonthsBefore(u, year) \in Nat
    BY MonthTable, Zenon
  <2>2. \A u \in 0..mon : u \in 0..11
    OBVIOUS
  <2>3. QED
    BY <2>1, <2>2, Zenon
<1>3. ASSUME NEW u \in 0..(mon - 1)
      PROVE  /\ u \in 0..11 /\ u + 1 \in 0..11 /\ GetDaysInMonth(u, year) \in Nat
             /\ MonthsBefore(u + 1, year) = MonthsBefore(u, year) + GetDaysInMonth(u, year)
  <2>1. u \in 0..11 /\ u + 1 \in 0..11 /\ u < 11
    OBVIOUS
  <2>2. MonthsBefore(u + 1, year) = MonthsBefore(u, year) + LastDay(u, year)
    BY <2>1, MonthTable, Zenon
  <2>3. GetDaysInMonth(u, year) = LastDay(u, year) /\ LastDay(u, year) \in 28..31
    BY <2>1, MonthLengths, Zenon
  <2>4. QED
    BY <2>1, <2>2, <2>3
<1>4. QED
  BY <1>1, <1>2, <1>3 DEF Sums

\* A day of a month is a day of the year.
LEMMA DayInYear ==
    ASSUME NEW year \in Nat, NEW mon \in 0..11, NEW mday \in 1..LastDay(mon, year)
    PROVE  /\ MonthsBefore(mon, year) + mday - 1 \in Nat
           /\ MonthsBefore(mon, year) + mday - 1 < DaysInYear(year)
<1> DEFINE before == [m \in 0..11 |-> MonthsBefore(m, year)]
<1>1. /\ MonthsBefore(mon, year) \in Nat /\ LastDay(mon, year) \in 28..31
      /\ DaysInYear(year) = 365 + LeapDay(year) /\ LeapDay(year) \in {0, 1}
  BY MonthTable, MonthLengths, LeapYears, ZenonT(40)
<1>2. CASE mon = 11
  <2>1. MonthsBefore(mon, year) + LastDay(mon, year) = 365 + LeapDay(year)
    BY <1>2, MonthTable, Zenon
  <2>2. QED
    BY <1>1, <2>1
<1>3. CASE mon < 11
  <2>1. /\ mon + 1 \in 0..11 /\ 11 \in (mon + 1)..11 /\ 11 \in 0..11
        /\ MonthsBefore(mon + 1, year) = MonthsBefore(mon, year) + LastDay(mon, year)
    <3>1. MonthsBefore(mon + 1, year) = MonthsBefore(mon, year) + LastDay(mon, year)
      BY <1>3, MonthTable, Zenon
    <3>2. QED
      BY <1>3, <3>1
  <2>2. before[mon + 1] =< before[11]
    <3>1. Sums(before, [m \in 0..11 |-> GetDaysInMonth(m, year)], 0, 11)
      BY <2>1, MonthSums
    <3> HIDE DEF before
    <3>2. \A v \in (mon + 1)..11 : before[mon + 1] =< before[v]
      BY <2>1, <3>1, SumsGrow
    <3>3. QED
      BY <2>1, <3>2
  <2>3. MonthsBefore(mon + 1, year) =< MonthsBefore(11, year)
    BY <2>1, <2>2
  <2>4. /\ MonthsBefore(11, year) + LastDay(11, year) = 365 + LeapDay(year)
        /\ LastDay(11, year) \in 28..31 /\ MonthsBefore(11, year) \in Nat
    BY <2>1, MonthTable, MonthLengths
  <2>5. QED
    BY <1>1, <2>1, <2>3, <2>4
<1>4. QED
  BY <1>2, <1>3

\* The three divisions of gmtime, and the sum of mktime that undoes them.
LEMMA TimeOfDay ==
    ASSUME NEW n \in Nat, NEW s \in 0..(SecPerDay - 1), NEW t, t = n * SecPerDay + s,
           NEW minutes, minutes = t \div SecPerMin,
           NEW hours, hours = minutes \div MinPerHour
    PROVE  /\ t % SecPerMin \in 0..(SecPerMin - 1)
           /\ minutes % MinPerHour \in 0..(MinPerHour - 1)
           /\ hours % HourPerDay \in 0..(HourPerDay - 1)
           /\ hours \div HourPerDay = n
           /\ n * SecPerDay + (hours % HourPerDay) * SecPerMin * MinPerHour
                + (minutes % MinPerHour) * SecPerMin + (t % SecPerMin) = t
<1> DEFINE S == SecPerMin
           M == MinPerHour
           H == HourPerDay
           a == t % S
           b == minutes % M
           c == hours % H
           d == hours \div H
<1>1. S \in Nat \ {0} /\ M \in Nat \ {0} /\ H \in Nat \ {0} /\ SecPerDay = S * M * H
  BY CalendarAssumption DEF SecPerDay
<1>2. S * M \in Nat \ {0}
  BY <1>1
<1>3. S * M * H \in Nat \ {0}
  BY <1>1, <1>2
<1>4. t \in Nat
  <2>1. n * SecPerDay \in Nat
    BY <1>1, <1>3, ProductIsNatural
  <2>2. QED
    BY <1>1, <1>3, <2>1
<1>5. minutes \in Nat /\ a \in 0..(S - 1) /\ t = S * minutes + a
  BY <1>1, <1>4, DivRest
<1>6. hours \in Nat /\ b \in 0..(M - 1) /\ minutes = M * hours + b
  BY <1>1, <1>5, DivRest
<1>7. d \in Nat /\ c \in 0..(H - 1) /\ hours = H * d + c
  BY <1>1, <1>6, DivRest
<1> HIDE DEF S, M, H, a, b, c, d
<1>8. S * b + a \in 0..(S * M - 1)
  BY <1>1, <1>5, <1>6, TwoDigits
<1>9. (S * M) * c + (S * b + a) \in 0..((S * M) * H - 1)
  <2> DEFINE e == S * b + a
             p == S * M
  <2>1. p \in Nat \ {0} /\ e \in 0..(p - 1)
    BY <1>2, <1>8
  <2> HIDE DEF e, p
  <2>2. p * c + e \in 0..(p * H - 1)
    BY <1>1, <1>7, <2>1, TwoDigits
  <2>3. QED
    BY <2>2 DEF e, p
<1>10. t = (S * M * H) * d + ((S * M) * c + (S * b + a))
  <2>1. minutes = M * (H * d + c) + b
    BY <1>6, <1>7
  <2>2. t = S * (M * (H * d + c) + b) + a
    BY <1>5, <2>1
  <2>3. a \in Nat /\ b \in Nat /\ c \in Nat /\ d \in Nat /\ S \in Nat /\ M \in Nat /\ H \in Nat
    BY <1>1, <1>5, <1>6, <1>7
  <2>4. S * (M * (H * d + c) + b) + a = (S * M * H) * d + ((S * M) * c + (S * b + a))
    BY ONLY <2>3
  <2>5. QED
    BY <2>2, <2>4
<1>11. d = n
  <2> DEFINE e == (S * M) * c + (S * b + a)
             p == S * M * H
  <2>1. p \in Nat \ {0} /\ e \in 0..(p - 1) /\ s \in 0..(p - 1)
    BY <1>1, <1>3, <1>9
  <2>2. t = p * d + e /\ t = n * p + s
    BY <1>1, <1>10
  <2> HIDE DEF e, p
  <2>3. n * p = p * n
    BY <2>1
  <2>4. QED
    BY <1>7, <2>1, <2>2, <2>3, SameQuotient
<1>12. n * SecPerDay + c * S * M + b * S + a = t
  <2>1. /\ a \in Nat /\ b \in Nat /\ c \in Nat /\ n \in Nat /\ S \in Nat /\ M \in Nat /\ H \in Nat
        /\ t = (S * M * H) * n + ((S * M) * c + (S * b + a))
    BY <1>1, <1>5, <1>6, <1>7, <1>10, <1>11
  <2>2. n * (S * M * H) + c * S * M + b * S + a = t
    BY ONLY <2>1
  <2>3. QED
    BY <1>1, <2>2
<1>13. QED
  BY <1>5, <1>6, <1>7, <1>11, <1>12 DEF S, M, H, a, b, c, d

LEMMA DateFacts ==
    ASSUME NEW d, DateOf(d)
    PROVE  /\ d.n \in Nat /\ d.yday \in Nat /\ d.yday < DaysInYear(d.year)
           /\ YearsBefore(d.year) \in Nat /\ MonthsBefore(d.mon, d.year) \in Nat
           /\ DaysInYear(d.year) \in Nat /\ d.mday - 1 \in Nat
           /\ d.mday - 1 < GetDaysInMonth(d.mon, d.year) /\ GetDaysInMonth(d.mon, d.year) \in Nat
<1> DEFINE y == d.year
           m == d.mon
<1>1. y \in Nat /\ y >= 1970 /\ m \in 0..11 /\ d.mday \in 1..LastDay(m, y)
      /\ d.yday = MonthsBefore(m, y) + d.mday - 1 /\ d.n = YearsBefore(y) + d.yday
  BY DEF DateOf
<1> HIDE DEF y, m
<1>2. d.yday \in Nat /\ d.yday < DaysInYear(y)
  BY <1>1, DayInYear
<1>3. YearsBefore(y) \in Nat
  BY <1>1, NextYear
<1>4. MonthsBefore(m, y) \in Nat
  <2>1. \A k \in 0..11, z \in Nat : MonthsBefore(k, z) \in Nat
    BY MonthTable
  <2>2. m \in 0..11 /\ y \in Nat
    BY <1>1
  <2>3. QED
    BY <2>1, <2>2, Zenon
<1>5. DaysInYear(y) = 365 + LeapDay(y) /\ LeapDay(y) \in {0, 1}
  BY <1>1, LeapYears
<1>6. GetDaysInMonth(m, y) = LastDay(m, y) /\ LastDay(m, y) \in 28..31
  BY <1>1, MonthLengths
<1>7. d.n \in Nat
  BY <1>1, <1>2, <1>3
<1>8. d.mday - 1 \in Nat /\ d.mday - 1 < GetDaysInMonth(m, y) /\ GetDaysInMonth(m, y) \in Nat
  BY <1>1, <1>6
<1>9. DaysInYear(y) \in Nat
  BY <1>5
<1>10. QED
  BY <1>2, <1>3, <1>4, <1>7, <1>8, <1>9 DEF y, m

\* The loops of gmtime find the year and the month of a date.
LEMMA LoopsFind ==
    ASSUME NEW d, DateOf(d)
    PROVE  /\ YearLoop(d.n) = [unit |-> d.year, rest |-> d.yday]
           /\ MonthLoop(d.yday, d.year) = [unit |-> d.mon, rest |-> d.mday - 1]
<1> DEFINE y == d.year
           m == d.mon
           years == [z \in Nat |-> YearsBefore(z)]
           inYear == [z \in Nat |-> DaysInYear(z)]
           months == [z \in 0..11 |-> MonthsBefore(z, y)]
           inMonth == [z \in 0..11 |-> GetDaysInMonth(z, y)]
<1>1. /\ y \in Nat /\ y >= 1970 /\ m \in 0..11 /\ m \in Nat /\ m =< 0 + 11
      /\ d.n = YearsBefore(y) + d.yday /\ d.yday = MonthsBefore(m, y) + d.mday - 1
      /\ d.mday \in Int
  BY DEF DateOf
<1>2. /\ d.n \in Nat /\ d.yday \in Nat /\ d.yday < DaysInYear(y)
      /\ YearsBefore(y) \in Nat /\ MonthsBefore(m, y) \in Nat
      /\ DaysInYear(y) \in Nat /\ d.mday - 1 \in Nat
      /\ d.mday - 1 < GetDaysInMonth(m, y) /\ GetDaysInMonth(m, y) \in Nat
  BY DateFacts
<1> HIDE DEF y, m
<1>3. Sums(years, inYear, 1970, y)
  BY <1>1, YearSums
<1>4. Sums(months, inMonth, 0, m)
  BY <1>1, MonthSums
<1>5. d.n \div 365 \in Nat /\ 1970 =< y /\ y =< 1970 + (d.n \div 365)
  <2>1. YearsBefore(y) >= 365 * (y - 1970)
    BY <1>1, NextYear
  <2>2. d.n >= 365 * (y - 1970)
    BY <1>1, <1>2, <2>1
  <2>3. QED
    BY <1>1, <1>2, <2>2
<1>6. /\ years[y] = YearsBefore(y) /\ inYear[y] = DaysInYear(y)
      /\ months[m] = MonthsBefore(m, y) /\ inMonth[m] = GetDaysInMonth(m, y)
  BY <1>1
<1>7. d.yday = MonthsBefore(m, y) + (d.mday - 1)
  BY <1>1, <1>2
<1>8. /\ YearLoop(d.n) = CountOff(1970, d.n, inYear, d.n \div 365)
      /\ MonthLoop(d.yday, y) = CountOff(0, d.yday, inMonth, 11)
  BY DEF YearLoop, MonthLoop
<1> HIDE DEF years, inYear, months, inMonth
<1>9. CountOff(1970, d.n, inYear, d.n \div 365) = [unit |-> y, rest |-> d.yday]
  <2>1. d.n = years[y] + d.yday /\ d.yday < inYear[y] /\ inYear[y] \in Nat /\ 1970 \in Nat
    BY <1>1, <1>2, <1>6
  <2>2. QED
    <3> DEFINE n == d.n
               r == d.yday
               turns == d.n \div 365
    <3>1. /\ n \in Nat /\ r \in Nat /\ turns \in Nat /\ y \in Nat
          /\ 1970 =< y /\ y =< 1970 + turns /\ 1970 \in Nat
          /\ n = years[y] + r /\ r < inYear[y] /\ inYear[y] \in Nat
      BY <1>1, <1>2, <1>5, <2>1
    <3> HIDE DEF n, r, turns
    <3>2. CountOff(1970, n, inYear, turns) = [unit |-> y, rest |-> r]
      BY <1>3, <3>1, CountOffStops
    <3>3. QED
      BY <3>2 DEF n, r, turns
<1>10. CountOff(0, d.yday, inMonth, 11) = [unit |-> m, rest |-> d.mday - 1]
  <2>1. /\ d.yday = months[m] + (d.mday - 1) /\ d.mday - 1 < inMonth[m] /\ inMonth[m] \in Nat
        /\ 0 \in Nat /\ 11 \in Nat /\ 0 =< m
    BY <1>1, <1>2, <1>6, <1>7
  <2>2. QED
    <3> DEFINE n == d.yday
               r == d.mday - 1
    <3>1. /\ n \in Nat /\ r \in Nat /\ 11 \in Nat /\ m \in Nat /\ 0 =< m /\ m =< 0 + 11 /\ 0 \in Nat
          /\ n = months[m] + r /\ r < inMonth[m] /\ inMonth[m] \in Nat
      BY <1>1, <1>2, <2>1
    <3> HIDE DEF n, r
    <3>2. CountOff(0, n, inMonth, 11) = [unit |-> m, rest |-> r]
      BY <1>4, <3>1, CountOffStops
    <3>3. QED
      BY <3>2 DEF n, r
<1>11. QED
  BY <1>8, <1>9, <1>10 DEF y, m

\* The loops of mktime count the days before a date's month.
LEMMA LoopsCount ==
    ASSUME NEW d, DateOf(d)
    PROVE  DaysBefore(d.year, d.mon) = YearsBefore(d.year) + MonthsBefore(d.mon, d.year)
<1> DEFINE y == d.year
           m == d.mon
           years == [z \in Nat |-> YearsBefore(z)]
           inYear == [z \in Nat |-> DaysInYear(z)]
           months == [z \in 0..11 |-> MonthsBefore(z, y)]
           inMonth == [z \in 0..11 |-> GetDaysInMonth(z, y)]
<1>1. y \in Nat /\ 1970 =< y /\ m \in 0..11 /\ m \in Nat /\ 0 =< m
  BY DEF DateOf
<1> HIDE DEF y, m
<1>2. Sums(years, inYear, 1970, y)
  BY <1>1, YearSums
<1>3. Sums(months, inMonth, 0, m)
  BY <1>1, MonthSums
<1>4. years[y] = YearsBefore(y) /\ months[m] = MonthsBefore(m, y)
  BY <1>1
<1>5. DaysBefore(y, m) = AddUp(1970, y, inYear) + AddUp(0, m, inMonth)
  BY DEF DaysBefore
<1> HIDE DEF years, inYear, months, inMonth
<1>6. AddUp(1970, y, inYear) = years[y]
  BY <1>1, <1>2, AddUpSums
<1>7. AddUp(0, m, inMonth) = months[m]
  BY <1>1, <1>3, AddUpSums
<1>8. QED
  BY <1>4, <1>5, <1>6, <1>7 DEF y, m

\* On a date of the calendar gmtime gives that date, and mktime undoes it.
LEMMA GmtimeRight ==
    ASSUME NEW d, DateOf(d), NEW s \in 0..(SecPerDay - 1),
           NEW tm, tm = Gmtime(d.n * SecPerDay + s)
    PROVE  /\ tm.tm_year + 1900 = d.year /\ tm.tm_yday = d.yday
           /\ tm.tm_mon = d.mon /\ tm.tm_mday = d.mday /\ tm.tm_wday = d.wday
           /\ Mktime(tm) = d.n * SecPerDay + s
<1> DEFINE t == d.n * SecPerDay + s
           minutes == t \div SecPerMin
           hours == minutes \div MinPerHour
           days == hours \div HourPerDay
<1>1. /\ d.year \in Nat /\ d.mon \in 0..11 /\ d.mday \in 1..LastDay(d.mon, d.year)
      /\ d.yday = MonthsBefore(d.mon, d.year) + d.mday - 1 /\ d.n = YearsBefore(d.year) + d.yday
      /\ d.wday = (4 + d.n) % 7
  BY DEF DateOf
<1>2. /\ d.n \in Nat /\ d.yday \in Nat /\ d.mday - 1 \in Nat
      /\ YearsBefore(d.year) \in Nat /\ MonthsBefore(d.mon, d.year) \in Nat
  BY DateFacts
<1>3. /\ t % SecPerMin \in 0..(SecPerMin - 1)
      /\ minutes % MinPerHour \in 0..(MinPerHour - 1)
      /\ hours % HourPerDay \in 0..(HourPerDay - 1)
      /\ days = d.n
      /\ d.n * SecPerDay + (hours % HourPerDay) * SecPerMin * MinPerHour
           + (minutes % MinPerHour) * SecPerMin + (t % SecPerMin) = t
  BY <1>2, TimeOfDay
<1>4. tm = [tm_sec |-> t % SecPerMin,
            tm_min |-> minutes % MinPerHour,
            tm_hour |-> hours % HourPerDay,
            tm_year |-> YearLoop(days).unit - 1900,
            tm_yday |-> YearLoop(days).rest,
            tm_mon |-> MonthLoop(YearLoop(days).rest, YearLoop(days).unit).unit,
            tm_mday |-> MonthLoop(YearLoop(days).rest, YearLoop(days).unit).rest + 1,
            tm_wday |-> (4 + days) % 7]
  BY Zenon DEF Gmtime
<1> HIDE DEF t, minutes, hours, days
<1>5. YearLoop(days) = [unit |-> d.year, rest |-> d.yday]
  BY <1>3, LoopsFind
<1>6. MonthLoop(YearLoop(days).rest, YearLoop(days).unit) = [unit |-> d.mon, rest |-> d.mday - 1]
  BY <1>5, LoopsFind
<1>7. /\ tm.tm_year = d.year - 1900 /\ tm.tm_yday = d.yday /\ tm.tm_mon = d.mon
      /\ tm.tm_mday = (d.mday - 1) + 1 /\ tm.tm_wday = (4 + d.n) % 7
  BY <1>3, <1>4, <1>5, <1>6
<1>8. /\ tm.tm_sec = t % SecPerMin /\ tm.tm_min = minutes % MinPerHour
      /\ tm.tm_hour = hours % HourPerDay
  BY <1>4
<1>9. tm.tm_year + 1900 = d.year /\ tm.tm_mday = d.mday
  <2> DEFINE y == d.year
             m == d.mday
  <2>1. y \in Nat /\ m \in Int /\ tm.tm_year = y - 1900 /\ tm.tm_mday = (m - 1) + 1
    BY <1>1, <1>7
  <2> HIDE DEF y, m
  <2>2. tm.tm_year + 1900 = y /\ tm.tm_mday = m
    BY ONLY <2>1
  <2>3. QED
    BY <2>2 DEF y, m
<1>10. Valid(tm)
  <2>1. GetDaysInMonth(d.mon, d.year) = LastDay(d.mon, d.year)
    BY <1>1, MonthLengths
  <2>2. tm.tm_mday \in 1..GetDaysInMonth(tm.tm_mon, tm.tm_year + 1900)
    BY <1>1, <1>7, <1>9, <2>1
  <2>3. tm.tm_sec \in 0..SecPerMin
    <3>1. SecPerMin \in Nat
      BY CalendarAssumption
    <3>2. QED
      BY <1>3, <1>8, <3>1
  <2>4. QED
    BY <1>1, <1>3, <1>7, <1>8, <2>2, <2>3 DEF Valid
<1>11. DaysBefore(tm.tm_year + 1900, tm.tm_mon) = YearsBefore(d.year) + MonthsBefore(d.mon, d.year)
  BY <1>7, <1>9, LoopsCount
<1>12. DaysBefore(tm.tm_year + 1900, tm.tm_mon) + tm.tm_mday - 1 = d.n
  BY <1>1, <1>2, <1>9, <1>11
<1>13. Mktime(tm) = d.n * SecPerDay + tm.tm_hour * SecPerMin * MinPerHour + tm.tm_min * SecPerMin
                    + tm.tm_sec
  <2>1. Mktime(tm) = (DaysBefore(tm.tm_year + 1900, tm.tm_mon) + tm.tm_mday - 1) * SecPerDay
                     + tm.tm_hour * SecPerMin * MinPerHour + tm.tm_min * SecPerMin + tm.tm_sec
    BY <1>10 DEF Mktime
  <2>2. QED
    BY <1>12, <2>1
<1>14. Mktime(tm) = t
  BY <1>3, <1>8, <1>13
<1>15. QED
  BY <1>1, <1>7, <1>9, <1>14 DEF t

LEMMA NewYearIsDate ==
    ASSUME NEW year \in Nat, year >= 1970
    PROVE  DateOf(NewYear(year))
<1> DEFINE d == NewYear(year)
<1>1. /\ d.year = year /\ d.mon = 0 /\ d.mday = 1 /\ d.yday = 0
      /\ d.n = YearsBefore(year) /\ d.wday = (4 + d.n) % 7
  BY DEF NewYear, YearsBefore
<1>2. 0 \in 0..11
  OBVIOUS
<1>3. MonthsBefore(0, year) = 0
  <2>1. \A m \in 0..11 : m = 0 => MonthsBefore(m, year) = 0
    BY MonthTable
  <2>2. QED
    BY <1>2, <2>1
<1>4. LastDay(0, year) \in 28..31
  BY <1>2, MonthLengths
<1>5. YearsBefore(year) \in Nat
  BY NextYear
<1> HIDE DEF d
<1>6. DateOf(d)
  BY <1>1, <1>2, <1>3, <1>4, <1>5 DEF DateOf
<1>7. QED
  BY <1>6 DEF d

\* The day after a date of the calendar is one.
LEMMA TomorrowIsDate ==
    ASSUME NEW d, DateOf(d)
    PROVE  DateOf(Tomorrow(d))
<1> DEFINE e == Tomorrow(d)
           y == d.year
           m == d.mon
           last == LastDay(m, y)
           yearEnds == d.mday = last /\ m = 11
<1>1. /\ y \in Nat /\ y >= 1970 /\ m \in 0..11 /\ d.mday \in 1..last
      /\ d.yday = MonthsBefore(m, y) + d.mday - 1 /\ d.n = YearsBefore(y) + d.yday
      /\ d.wday = (4 + d.n) % 7
  BY DEF DateOf
<1>2. /\ e.n = d.n + 1
      /\ e.year = IF yearEnds THEN y + 1 ELSE y
      /\ e.yday = IF yearEnds THEN 0 ELSE d.yday + 1
      /\ e.mon = IF yearEnds THEN 0 ELSE IF d.mday = last THEN m + 1 ELSE m
      /\ e.mday = IF d.mday = last THEN 1 ELSE d.mday + 1
      /\ e.wday = IF d.wday = 6 THEN 0 ELSE d.wday + 1
  BY DEF Tomorrow
<1>3. d.n \in Nat /\ d.yday \in Nat /\ YearsBefore(y) \in Nat /\ MonthsBefore(m, y) \in Nat
  BY DateFacts
<1> HIDE DEF e, y, m
<1>4. last \in 28..31
  BY <1>1, MonthLengths
<1>5. e.wday = (4 + e.n) % 7
  <2>1. \A n \in Nat : (4 + (n + 1)) % 7 = IF (4 + n) % 7 = 6 THEN 0 ELSE ((4 + n) % 7) + 1
    OBVIOUS
  <2>2. QED
    BY <1>1, <1>2, <1>3, <2>1
<1> HIDE DEF last
<1>6. CASE yearEnds
  <2>1. MonthsBefore(m, y) + last = 365 + LeapDay(y) /\ DaysInYear(y) = 365 + LeapDay(y)
    <3>1. \A k \in 0..11, z \in Nat :
            k = 11 => MonthsBefore(k, z) + LastDay(k, z) = 365 + LeapDay(z)
      BY MonthTable
    <3>2. QED
      BY <1>1, <1>6, <3>1, LeapYears DEF last
  <2>2. YearsBefore(y + 1) = YearsBefore(y) + DaysInYear(y)
    BY <1>1, NextYear
  <2>3. e.n = YearsBefore(y + 1)
    BY <1>1, <1>2, <1>3, <1>4, <1>6, <2>1, <2>2
  <2>4. /\ y + 1 \in Nat /\ y + 1 >= 1970 /\ 0 \in 0..11
        /\ e.year = y + 1 /\ e.yday = 0 /\ e.mon = 0 /\ e.mday = 1
    BY <1>1, <1>2, <1>6
  <2>5. MonthsBefore(0, y + 1) = 0
    <3>1. \A k \in 0..11 : k = 0 => MonthsBefore(k, y + 1) = 0
      BY <2>4, MonthTable
    <3>2. QED
      BY <2>4, <3>1
  <2>6. LastDay(0, y + 1) \in 28..31
    BY <2>4, MonthLengths
  <2>7. YearsBefore(y + 1) \in Nat
    BY <2>4, NextYear
  <2>8. QED
    BY <1>5, <2>3, <2>4, <2>5, <2>6, <2>7 DEF DateOf, e
<1>7. CASE d.mday = last /\ m # 11
  <2>1. /\ m + 1 \in 0..11 /\ m < 11 /\ ~yearEnds
        /\ e.year = y /\ e.yday = d.yday + 1 /\ e.mon = m + 1 /\ e.mday = 1
    BY <1>1, <1>2, <1>7
  <2>2. MonthsBefore(m + 1, y) = MonthsBefore(m, y) + last
    <3>1. \A k \in 0..11, z \in Nat :
            k < 11 => MonthsBefore(k + 1, z) = MonthsBefore(k, z) + LastDay(k, z)
      BY MonthTable
    <3>2. QED
      BY <1>1, <2>1, <3>1 DEF last
  <2>3. LastDay(m + 1, y) \in 28..31
    BY <1>1, <2>1, MonthLengths
  <2>4. e.yday = MonthsBefore(m + 1, y) + 1 - 1 /\ e.n = YearsBefore(y) + e.yday
    BY <1>1, <1>2, <1>3, <1>4, <1>7, <2>1, <2>2
  <2>5. QED
    BY <1>1, <1>5, <2>1, <2>3, <2>4 DEF DateOf, e
<1>8. CASE d.mday # last
  <2>1. /\ ~yearEnds /\ e.year = y /\ e.yday = d.yday + 1 /\ e.mon = m /\ e.mday = d.mday + 1
    BY <1>2, <1>8
  <2>2. e.mday \in 1..last
    BY <1>1, <1>4, <1>8, <2>1
  <2>3. e.yday = MonthsBefore(m, y) + e.mday - 1 /\ e.n = YearsBefore(y) + e.yday
    BY <1>1, <1>2, <1>3, <1>4, <2>1
  <2>4. QED
    BY <1>1, <1>5, <2>1, <2>2, <2>3 DEF DateOf, e, last
<1>9. QED
  BY <1>6, <1>7, <1>8

(***************************************************************************)
(* gmtime gives every day from 1970 on its date, weekday and place in the  *)
(* year, and mktime is its inverse to the second: no bound on the year.    *)
(***************************************************************************)
THEOREM DatesAreRight == Spec => []DatesRight
<1>1. Init => CalInv
  <2>1. SUFFICES ASSUME CalInit \/ CalRest PROVE CalInv
    BY DEF Init
  <2>2. SecPerDay \in Nat \ {0}
    <3>1. SecPerMin * MinPerHour \in Nat \ {0}
      BY CalendarAssumption
    <3>2. QED
      BY <3>1, CalendarAssumption DEF SecPerDay
  <2>3. CASE CalInit
    <3>1. PICK y \in ClockYears : today = NewYear(y)
      BY <2>3 DEF CalInit
    <3>2. DateOf(today)
      BY <3>1, NewYearIsDate, CalendarAssumption
    <3>3. sec_of_day \in 0..(SecPerDay - 1)
      BY <2>2, <2>3 DEF CalInit
    <3>4. QED
      BY <2>3, <3>2, <3>3 DEF CalInit, CalInv
  <2>4. CASE CalRest
    <3>1. DateOf(today)
      BY <2>4, NewYearIsDate DEF CalRest
    <3>2. today.n = 0
      <4>1. today.n = YearsBefore(1970)
        BY <2>4 DEF CalRest, NewYear, YearsBefore
      <4>2. Sums([y \in Nat |-> YearsBefore(y)], [y \in Nat |-> DaysInYear(y)], 1970, 1970)
        BY YearSums
      <4>3. QED
        BY <4>1, <4>2 DEF Sums
    <3>3. today.n * SecPerDay + sec_of_day = 0 /\ sec_of_day \in 0..(SecPerDay - 1)
      BY <2>2, <2>4, <3>2 DEF CalRest
    <3>4. current_tm = Gmtime(0)
      BY <2>4 DEF CalRest
    <3>5. QED
      BY <3>1, <3>3, <3>4 DEF CalInv
  <2>5. QED
    BY <2>1, <2>3, <2>4
<1>2. CalInv /\ [Next]_vars => CalInv'
  <2>1. SUFFICES ASSUME CalInv, CalNext \/ UNCHANGED calVars PROVE CalInv'
    BY DEF Next, vars
  <2>2. CASE CallGmtime
    <3>1. DateOf(today)'
      <4>1. DateOf(Tomorrow(today))
        BY <2>1, TomorrowIsDate DEF CalInv
      <4>2. QED
        BY <2>2, <4>1 DEF CallGmtime, DateOf
    <3>2. QED
      BY <2>1, <2>2, <3>1 DEF CalInv, CallGmtime
  <2>3. CASE UNCHANGED <<today, sec_of_day, current_tm>>
    BY <2>1, <2>3 DEF CalInv, DateOf
  <2>4. QED
    BY <2>1, <2>2, <2>3 DEF CalNext, CalEnd, calVars
<1>3. CalInv => DatesRight
  BY GmtimeRight DEF CalInv, DatesRight
<1>4. QED
  BY <1>1, <1>2, <1>3, PTL DEF Spec

-----------------------------------------------------------------------------
(***************************************************************************)
(* Numbers as text.                                                        *)
(***************************************************************************)
\* Ints and unsigned ints.
LEMMA NumberKinds ==
    /\ 0 \in Numbers
    /\ \A n \in Numbers : n \in Int /\ Absolute(n) \in 0..(UintRange - 1)
<1>1. /\ IntMax \in Nat /\ IntMin = -IntMax - 1 /\ UintRange = 2 * (IntMax + 1)
      /\ Numbers = IntMin..(UintRange - 1)
  BY DigitsAssumption DEF IntMin, UintRange, Numbers
<1>2. 0 \in Numbers
  BY <1>1
<1>3. ASSUME NEW n \in Numbers PROVE n \in Int /\ Absolute(n) \in 0..(UintRange - 1)
  BY <1>1 DEF Absolute
<1>4. QED
  BY <1>2, <1>3

LEMMA DigInitInv == Init => DigInv
<1> SUFFICES ASSUME DigInit \/ DigRest PROVE DigInv
  BY DEF Init
<1>0. IntMax \in Nat /\ Bases \subseteq 2..36 /\ IntMin = -IntMax - 1
  BY DigitsAssumption DEF IntMin
<1>1. CASE DigInit
  <2>1. DigTypeOK
    <3>1. /\ value \in Numbers /\ library \in {"libc", "console"} /\ base \in Bases
          /\ minus = WritesMinus /\ dig_pc = "digits"
      BY <1>1 DEF DigInit
    <3>2. WritesMinus \in BOOLEAN
      BY Zenon DEF WritesMinus
    <3>3. base \in 2..36
      BY <1>0, <3>1
    <3>4. QED
      BY <3>1, <3>2, <3>3, Zenon DEF DigTypeOK
  <2>2. ASSUME ~Smallest PROVE DigLoop
    <3>1. value \in Int /\ base \in 2..36 /\ digits = <<>>
      BY <1>0, <1>1, NumberKinds DEF DigInit
    <3>2. /\ number = (IF library = "console" /\ value < 0 THEN -value ELSE value)
          /\ library \in {"libc", "console"}
      BY <1>1, <2>2 DEF DigInit, Negated, Smallest
    <3>3. number \in Int /\ Absolute(number) = Absolute(value) /\ Absolute(value) \in Nat
          /\ (library = "console" => number >= 0)
      BY <3>1, <3>2 DEF Absolute
    <3> DEFINE f == [k \in 0..0 |-> Absolute(value)]
    <3>4. Divides(f, digits, base, Absolute(value), Absolute(number))
      <4>1. Len(digits) = 0 /\ 1..0 = {}
        BY <3>1
      <4>2. QED
        BY <3>3, <4>1 DEF Divides
    <3>5. digits \in Seq(0..(base - 1)) /\ Len(digits) = 0
      BY <3>1
    <3>6. QED
      BY <3>3, <3>4, <3>5 DEF DigLoop
  <2>3. DigTurn /\ DigTurned
    BY <1>1 DEF DigInit, DigTurn, DigTurned
  <2>4. QED
    BY <2>1, <2>2, <2>3 DEF DigInv
<1>2. CASE DigRest
  <2>1. /\ value = 0 /\ library = "libc" /\ base = 10 /\ minus = FALSE
        /\ digits = <<0>> /\ dig_pc = "done"
    BY <1>2 DEF DigRest
  <2>2. DigTypeOK
    <3>1. value \in Numbers
      BY <2>1, NumberKinds
    <3>2. base \in 2..36 /\ ~(value < 0)
      BY <2>1
    <3>3. minus \in BOOLEAN /\ (minus <=> WritesMinus)
      BY <2>1, <3>2, Zenon DEF WritesMinus
    <3>4. QED
      BY <2>1, <3>1, <3>2, <3>3 DEF DigTypeOK
  <2> DEFINE f == [k \in 0..1 |-> 0]
  <2>3. digits \in Seq(0..(base - 1)) /\ Len(digits) = 1 /\ digits[1] = 0
    BY <2>1
  <2>4. Divides(f, digits, base, Absolute(value), 0)
    <3>1. Absolute(value) = 0
      BY <2>1 DEF Absolute
    <3>2. \A k \in 1..1 : k = 1 /\ k - 1 = 0 /\ k \in 0..1 /\ k - 1 \in 0..1
      OBVIOUS
    <3>3. f \in [0..1 -> Nat] /\ f[0] = 0 /\ f[1] = 0
      OBVIOUS
    <3>4. 0 = 0 * 10 + 0
      OBVIOUS
    <3> HIDE DEF f
    <3>5. QED
      BY <2>1, <2>3, <3>1, <3>2, <3>3, <3>4 DEF Divides
  <2>5. Produced(digits, base, value)
    <3> HIDE DEF f
    <3>1. QED
      BY <2>3, <2>4 DEF Produced
  <2>6. Turned(digits, digits, 1, 0)
    <3>1. digits \in Seq(Nat)
      BY <2>1
    <3>2. \A k \in 1..1 : k = 1 /\ 1 + 1 - k = k
      OBVIOUS
    <3>3. QED
      BY <2>3, <3>1, <3>2 DEF Turned
  <2>7. QED
    BY <2>1, <2>2, <2>5, <2>6 DEF DigInv, DigLoop, DigTurn, DigTurned
<1>3. QED
  BY <1>1, <1>2

\* A turn of the first loop is a division of the number without its sign.
LEMMA DigitDivides ==
    ASSUME DigTypeOK, number \in Int, library = "console" => number >= 0
    PROVE  /\ Quotient(number, base) \in Int
           /\ Digit \in 0..(base - 1)
           /\ Absolute(number) = Absolute(Quotient(number, base)) * base + Digit
           /\ (number >= 0 => Quotient(number, base) >= 0)
           /\ Absolute(number) \in Nat /\ Absolute(Quotient(number, base)) \in Nat
<1> DEFINE a == Absolute(number)
           q == a \div base
<1>1. base \in Nat \ {0} /\ a \in Nat /\ library \in {"libc", "console"}
  BY DEF DigTypeOK, Absolute
<1>2. q \in Nat /\ a % base \in 0..(base - 1) /\ a = base * q + (a % base)
  BY <1>1, DivRest
<1>3. Quotient(number, base) = (IF number < 0 THEN -q ELSE q)
  BY DEF Quotient, Absolute
<1>4. number = IF number < 0 THEN -a ELSE a
  BY DEF Absolute
<1> HIDE DEF a, q
<1>5. q * base = base * q /\ base * q \in Nat /\ (-q) * base = -(base * q)
  BY <1>1, <1>2
<1>6. Remainder(number, base) = IF number < 0 THEN -(a % base) ELSE a % base
  <2> DEFINE r == a % base
             p == base * q
  <2>1. r \in Nat /\ p \in Nat /\ a = p + r /\ number = (IF number < 0 THEN -a ELSE a)
    BY <1>1, <1>2, <1>4, <1>5
  <2>2. Remainder(number, base) = number - (IF number < 0 THEN -p ELSE p)
    BY <1>3, <1>5 DEF Remainder
  <2> HIDE DEF r, p
  <2>3. Remainder(number, base) = IF number < 0 THEN -r ELSE r
    BY <2>1, <2>2
  <2>4. QED
    BY <2>3 DEF r
<1>7. Digit = a % base
  <2> DEFINE r == a % base
  <2>1. r \in Nat
    BY <1>1, <1>2
  <2>2. Digit = IF library = "libc" /\ Remainder(number, base) < 0 THEN -Remainder(number, base)
                ELSE Remainder(number, base)
    BY DEF Digit
  <2>3. Remainder(number, base) = IF number < 0 THEN -r ELSE r
    BY <1>6
  <2> HIDE DEF r
  <2>4. CASE number < 0
    <3>1. library = "libc"
      BY <1>1, <2>4
    <3>2. QED
      BY <2>1, <2>2, <2>3, <2>4, <3>1 DEF r
  <2>5. CASE ~(number < 0)
    BY <2>1, <2>2, <2>3, <2>5 DEF r
  <2>6. QED
    BY <2>4, <2>5
<1>8. Quotient(number, base) \in Int /\ Absolute(Quotient(number, base)) = q
      /\ (number >= 0 => Quotient(number, base) >= 0)
  BY <1>2, <1>3 DEF Absolute
<1>9. QED
  BY <1>1, <1>2, <1>5, <1>7, <1>8 DEF a

LEMMA DigitsAreNumbers ==
    ASSUME NEW b, NEW d \in Seq(0..(b - 1))
    PROVE  d \in Seq(Nat) /\ \A k \in 1..Len(d) : d[k] \in 0..(b - 1)
<1> DEFINE S == 0..(b - 1)
<1>1. Len(d) \in Nat /\ d \in [1..Len(d) -> 0..(b - 1)]
  <2>1. d \in Seq(S)
    OBVIOUS
  <2> HIDE DEF S
  <2>2. Len(d) \in Nat /\ d \in [1..Len(d) -> S]
    BY <2>1, LenProperties
  <2>3. QED
    BY <2>2 DEF S
<1>2. d \in [1..Len(d) -> Nat]
  BY <1>1
<1>3. QED
  BY <1>1, <1>2

LEMMA NextDigitStep ==
    ASSUME DigTypeOK, DigLoop, NextDigit
    PROVE  DigLoop' /\ DigTurn' /\ DigTurned'
<1> DEFINE n == Len(digits)
           d == Append(digits, Digit)
<1>1. /\ number \in Int /\ (library = "console" => number >= 0)
      /\ digits \in Seq(0..(base - 1)) /\ (number = 0 => Len(digits) = 0) /\ n \in Nat
  BY DEF DigLoop, NextDigit
<1>2. PICK f : Divides(f, digits, base, Absolute(value), Absolute(number))
  BY DEF DigLoop, NextDigit
<1>3. /\ Quotient(number, base) \in Int
      /\ Digit \in 0..(base - 1)
      /\ Absolute(number) = Absolute(Quotient(number, base)) * base + Digit
      /\ (number >= 0 => Quotient(number, base) >= 0)
      /\ Absolute(number) \in Nat /\ Absolute(Quotient(number, base)) \in Nat
  BY <1>1, DigitDivides
<1>4. /\ digits' = d /\ number' = Quotient(number, base)
      /\ value' = value /\ base' = base /\ library' = library
      /\ IF number' # 0 THEN dig_pc' = "digits" ELSE low' = 1 /\ high' = Len(d) /\ dig_pc' = "reverse"
  BY DEF NextDigit
<1> DEFINE q == Absolute(Quotient(number, base))
           g == [k \in 0..(n + 1) |-> IF k = n + 1 THEN q ELSE f[k]]
<1>5. /\ d \in Seq(0..(base - 1)) /\ Len(d) = n + 1 /\ d[n + 1] = Digit
      /\ \A k \in 1..n : d[k] = digits[k]
  BY <1>1, <1>3
<1>6. Divides(g, d, base, Absolute(value), q)
  <2>1. /\ f \in [0..n -> Nat] /\ f[0] = Absolute(value) /\ f[n] = Absolute(number)
        /\ \A k \in 1..n : f[k - 1] = f[k] * base + digits[k]
    BY <1>2 DEF Divides
  <2>2. \A k \in 0..(n + 1) : k # n + 1 => k \in 0..n
    BY <1>1
  <2>3. q \in Nat
    BY <1>3
  <2> HIDE DEF q, d
  <2>4. g \in [0..(n + 1) -> Nat]
    <3> HIDE DEF n
    <3>1. \A k \in 0..(n + 1) : (IF k = n + 1 THEN q ELSE f[k]) \in Nat
      BY <2>1, <2>2, <2>3
    <3>2. QED
      BY <3>1
  <2>5. g[0] = Absolute(value) /\ g[n + 1] = q
    BY <1>1, <2>1
  <2>6. ASSUME NEW k \in 1..(n + 1) PROVE g[k - 1] = g[k] * base + d[k]
    <3>1. CASE k = n + 1
      <4>1. k - 1 = n /\ n \in 0..(n + 1) /\ n # n + 1 /\ n + 1 \in 0..(n + 1)
        BY <1>1, <3>1
      <4>2. g[k - 1] = Absolute(number) /\ g[k] = q /\ d[k] = Digit
        BY <1>5, <2>1, <3>1, <4>1
      <4>3. QED
        BY <1>3, <4>2 DEF q
    <3>2. CASE k # n + 1
      <4>1. k \in 1..n /\ k - 1 \in 0..(n + 1) /\ k - 1 # n + 1 /\ k \in 0..(n + 1)
        BY <1>1, <3>2
      <4>2. g[k - 1] = f[k - 1] /\ g[k] = f[k] /\ d[k] = digits[k]
        BY <1>5, <3>2, <4>1
      <4>3. QED
        BY <2>1, <4>1, <4>2
    <3>3. QED
      BY <3>1, <3>2
  <2> HIDE DEF g
  <2>7. QED
    BY <1>5, <2>4, <2>5, <2>6 DEF Divides
<1> HIDE DEF d, g
<1>7. CASE number' # 0
  <2>1. (library' = "console" => number' >= 0) /\ number' \in Int /\ Absolute(number') = q
    BY <1>1, <1>3, <1>4
  <2>2. Divides(g, digits', base', Absolute(value'), Absolute(number'))
    BY <1>4, <1>6, <2>1
  <2>3. digits' \in Seq(0..(base' - 1)) /\ dig_pc' = "digits"
    BY <1>4, <1>5, <1>7
  <2>4. QED
    BY <1>7, <2>1, <2>2, <2>3 DEF DigLoop, DigTurn, DigTurned
<1>8. CASE number' = 0
  <2>1. q = 0
    BY <1>4, <1>8 DEF Absolute
  <2>2. Len(d) > 1 => d[Len(d)] # 0
    <3>1. SUFFICES ASSUME n # 0 PROVE Digit # 0
      BY <1>1, <1>5
    <3>2. number # 0
      BY <1>1, <3>1
    <3>3. Absolute(number) # 0
      BY <1>1, <3>2 DEF Absolute
    <3>4. 0 * base = 0
      BY DEF DigTypeOK
    <3>5. QED
      BY <1>3, <2>1, <3>3, <3>4
  <2>3. Produced(d, base, value)
    <3>1. Divides(g, d, base, Absolute(value), 0)
      BY <1>6, <2>1
    <3>2. QED
      BY <1>1, <1>5, <2>2, <3>1 DEF Produced
  <2>4. Turned(d, d, 1, Len(d))
    <3>1. d \in Seq(Nat)
      BY <1>5, DigitsAreNumbers
    <3>2. QED
      BY <3>1 DEF Turned
  <2>5. /\ dig_pc' = "reverse" /\ low' = 1 /\ high' = Len(d) /\ digits' = d
        /\ base' = base /\ value' = value
    BY <1>4, <1>8
  <2>6. low' \in Nat /\ high' \in Nat /\ low' >= 1 /\ low' + high' = Len(digits') + 1
    BY <1>1, <1>5, <2>5
  <2>7. Produced(d, base', value') /\ Turned(digits', d, low', high')
    BY <2>3, <2>4, <2>5
  <2>8. QED
    BY <2>5, <2>6, <2>7 DEF DigLoop, DigTurn, DigTurned
<1>9. QED
  BY <1>7, <1>8

\* An exchange turns one more character at each end.
LEMMA SwapStep ==
    ASSUME DigTypeOK, DigTurn, SwapEnds
    PROVE  DigLoop' /\ DigTurn' /\ DigTurned'
<1> DEFINE n == Len(digits)
           e == [digits EXCEPT ![low] = digits[high], ![high] = digits[low]]
<1>1. /\ low \in Nat /\ high \in Nat /\ low >= 1 /\ low + high = n + 1 /\ low < high
      /\ digits' = e /\ low' = low + 1 /\ high' = high - 1
      /\ value' = value /\ base' = base /\ dig_pc' = "reverse" /\ dig_pc = "reverse"
  BY DEF DigTurn, SwapEnds
<1>2. PICK d : Produced(d, base, value) /\ Turned(digits, d, low, high)
  BY <1>1 DEF DigTurn
<1>3. /\ digits \in Seq(Nat) /\ Len(digits) = Len(d) /\ n \in Nat
      /\ \A k \in 1..n : digits[k] = IF low =< k /\ k =< high THEN d[k] ELSE d[n + 1 - k]
  BY <1>2 DEF Turned
<1>4. low \in 1..n /\ high \in 1..n /\ high = n + 1 - low /\ low = n + 1 - high
  <2> HIDE DEF n
  <2>1. low \in Nat /\ high \in Nat /\ n \in Nat /\ low >= 1 /\ low + high = n + 1 /\ low < high
    BY <1>1, <1>3
  <2>2. QED
    BY ONLY <2>1
<1>5. /\ e \in Seq(Nat) /\ Len(e) = n /\ e[low] = digits[high] /\ e[high] = digits[low]
      /\ \A k \in 1..n : k # low /\ k # high => e[k] = digits[k]
  <2>1. digits[low] \in Nat /\ digits[high] \in Nat /\ digits \in [1..n -> Nat]
    BY <1>3, <1>4
  <2>2. e \in [1..n -> Nat]
    BY <1>4, <2>1
  <2>3. e \in Seq(Nat) /\ Len(e) = n
    <3> HIDE DEF e, n
    <3>1. QED
      BY <1>3, <2>2
  <2>4. QED
    BY <1>1, <1>4, <2>1, <2>3
<1>11. Len(digits) = n
  OBVIOUS
<1> HIDE DEF e, n
<1>6. ASSUME NEW k \in 1..n
      PROVE  e[k] = IF low + 1 =< k /\ k =< high - 1 THEN d[k] ELSE d[n + 1 - k]
  <2>1. CASE k = low
    <3>1. e[k] = d[high] /\ n + 1 - k = high /\ ~(low + 1 =< k)
      BY <1>1, <1>3, <1>4, <1>5, <2>1
    <3>2. QED
      BY <3>1
  <2>2. CASE k = high
    <3>1. e[k] = d[low] /\ n + 1 - k = low /\ ~(k =< high - 1)
      BY <1>1, <1>3, <1>4, <1>5, <2>2
    <3>2. QED
      BY <3>1
  <2>3. CASE k # low /\ k # high
    <3>1. (low + 1 =< k /\ k =< high - 1) <=> (low =< k /\ k =< high)
      BY <1>1, <2>3
    <3>2. QED
      BY <1>3, <1>5, <2>3, <3>1
  <2>4. QED
    BY <2>1, <2>2, <2>3
<1>7. Turned(e, d, low + 1, high - 1)
  BY <1>3, <1>5, <1>6, <1>11 DEF Turned
<1>8. Produced(d, base', value') /\ Turned(digits', d, low', high')
  BY <1>1, <1>2, <1>7
<1>9. low' \in Nat /\ high' \in Nat /\ low' >= 1 /\ low' + high' = Len(digits') + 1
  BY <1>1, <1>3, <1>5
<1>10. QED
  BY <1>1, <1>8, <1>9 DEF DigLoop, DigTurn, DigTurned

LEMMA DigEndStep ==
    ASSUME DigTypeOK, DigTurn, DigEnd
    PROVE  DigLoop' /\ DigTurn' /\ DigTurned'
<1> DEFINE n == Len(digits)
<1>1. /\ low \in Nat /\ high \in Nat /\ low + high = n + 1 /\ low >= high
      /\ digits' = digits /\ value' = value /\ base' = base /\ dig_pc' = "done" /\ dig_pc = "reverse"
  BY DEF DigTurn, DigEnd
<1>2. PICK d : Produced(d, base, value) /\ Turned(digits, d, low, high)
  BY <1>1 DEF DigTurn
<1>3. /\ digits \in Seq(Nat) /\ Len(digits) = Len(d) /\ n \in Nat
      /\ \A k \in 1..n : digits[k] = IF low =< k /\ k =< high THEN d[k] ELSE d[n + 1 - k]
  BY <1>2 DEF Turned
<1>4. ASSUME NEW k \in 1..n
      PROVE  digits[k] = IF 1 =< k /\ k =< 0 THEN d[k] ELSE d[n + 1 - k]
  <2>1. low =< k /\ k =< high => n + 1 - k = k
    <3> HIDE DEF n
    <3>1. QED
      BY <1>1, <1>3
  <2>2. ~(k =< 0)
    OBVIOUS
  <2>3. QED
    BY <1>3, <2>1, <2>2
<1>5. Turned(digits, d, 1, 0)
  BY <1>3, <1>4 DEF Turned
<1>6. Produced(d, base', value') /\ Turned(digits', d, 1, 0)
  BY <1>1, <1>2, <1>5
<1>7. QED
  BY <1>1, <1>6 DEF DigLoop, DigTurn, DigTurned

LEMMA DigStep ==
    ASSUME DigInv, DigNext \/ UNCHANGED digVars
    PROVE  DigInv'
<1>1. CASE UNCHANGED digVars
  BY <1>1 DEF digVars, DigInv, DigTypeOK, WritesMinus, Smallest, DigLoop, DigTurn, DigTurned
<1>2. CASE DigNext
  <2>1. /\ value' = value /\ base' = base /\ library' = library /\ minus' = minus
        /\ dig_pc' \in {"digits", "reverse", "done"}
    BY <1>2 DEF DigNext, NextDigit, SwapEnds, DigEnd
  <2>2. DigTypeOK' /\ (Smallest <=> Smallest')
    BY <2>1 DEF DigInv, DigTypeOK, WritesMinus, Smallest
  <2>3. ASSUME DigLoop, DigTurn, DigTypeOK PROVE DigLoop' /\ DigTurn' /\ DigTurned'
    BY <1>2, <2>3, NextDigitStep, SwapStep, DigEndStep DEF DigNext
  <2>4. QED
    BY <2>2, <2>3 DEF DigInv
<1>3. QED
  BY <1>1, <1>2

\* The digits are those of the number, in order.
LEMMA DigitsInOrder ==
    ASSUME DigInv, dig_pc = "done", ~Smallest
    PROVE  /\ Len(digits) \in Nat /\ Len(digits) > 0 /\ digits \in Seq(Nat)
           /\ \A k \in 1..Len(digits) : digits[k] \in 0..(base - 1)
           /\ Len(digits) > 1 => digits[1] # 0
           /\ \E g : Horner(g, digits, base, Absolute(value))
<1> DEFINE L == Len(digits)
<1>1. PICK d : Produced(d, base, value) /\ Turned(digits, d, 1, 0)
  BY DEF DigInv, DigTurned
<1>2. PICK f : Divides(f, d, base, Absolute(value), 0)
  BY <1>1 DEF Produced
<1>3. /\ digits \in Seq(Nat) /\ L = Len(d) /\ L \in Nat /\ L > 0 /\ d \in Seq(0..(base - 1))
      /\ (L > 1 => d[L] # 0)
  BY <1>1 DEF Turned, Produced
<1>4. ASSUME NEW k \in 1..L PROVE digits[k] = d[L + 1 - k] /\ L + 1 - k \in 1..L
  <2>1. ~(k =< 0)
    OBVIOUS
  <2>2. digits[k] = d[L + 1 - k]
    BY <1>1, <1>3, <2>1 DEF Turned
  <2> HIDE DEF L
  <2>3. QED
    BY <1>3, <2>2
<1>5. /\ f \in [0..L -> Nat] /\ f[0] = Absolute(value) /\ f[L] = 0
      /\ \A k \in 1..L : f[k - 1] = f[k] * base + d[k]
  BY <1>2, <1>3 DEF Divides
<1>6. \A k \in 1..L : d[k] \in 0..(base - 1)
  BY <1>3, DigitsAreNumbers
<1> HIDE DEF L
<1>7. \A k \in 1..L : digits[k] \in 0..(base - 1)
  BY <1>4, <1>6
<1>8. L > 1 => digits[1] # 0
  <2>1. 1 \in 1..L /\ L + 1 - 1 = L
    BY <1>3
  <2>2. digits[1] = d[L]
    BY <1>4, <2>1
  <2>3. QED
    BY <1>3, <2>2
<1> DEFINE g == [n \in 0..L |-> f[L - n]]
<1>9. \A n \in 0..L : L - n \in 0..L
  BY <1>3
<1>10. g \in [0..L -> Nat] /\ g[0] = 0 /\ g[L] = Absolute(value)
  BY <1>3, <1>5, <1>9
<1>11. ASSUME NEW n \in 1..L PROVE g[n] = g[n - 1] * base + digits[n]
  <2> DEFINE k == L + 1 - n
  <2>1. k \in 1..L /\ k - 1 = L - n /\ k = L - (n - 1) /\ n \in 0..L /\ n - 1 \in 0..L
    BY <1>3
  <2>2. g[n] = f[k - 1] /\ g[n - 1] = f[k]
    BY <2>1
  <2>3. digits[n] = d[k]
    BY <1>4
  <2> HIDE DEF k, g
  <2>4. QED
    BY <1>5, <2>1, <2>2, <2>3
<1> HIDE DEF g
<1>12. Horner(g, digits, base, Absolute(value))
  BY <1>10, <1>11 DEF Horner, L
<1>13. QED
  BY <1>3, <1>7, <1>8, <1>12 DEF L

\* Reading never passes the number.
LEMMA HornerGrows ==
    ASSUME NEW g, NEW e, NEW b \in Nat \ {0}, NEW v, Horner(g, e, b, v), Len(e) \in Nat,
           \A k \in 1..Len(e) : e[k] \in Nat, NEW n \in 0..Len(e)
    PROVE  g[n] =< v
<1> DEFINE L == Len(e)
           S == {k \in n..L : g[n] =< g[k]}
<1>1. /\ L \in Nat /\ g \in [0..L -> Nat] /\ g[L] = v /\ n \in 0..L /\ n \in Int /\ L \in n..L
      /\ \A k \in 1..L : g[k] = g[k - 1] * b + e[k] /\ e[k] \in Nat
  BY DEF Horner
<1> HIDE DEF L
<1>2. n \in S
  BY <1>1
<1>3. ASSUME NEW k \in n..(L - 1), k \in S PROVE k + 1 \in S
  <2>1. k \in 0..L /\ k + 1 \in 1..L /\ (k + 1) - 1 = k /\ k + 1 \in n..L /\ k + 1 \in 0..L
    BY <1>1
  <2>2. g[k + 1] = g[k] * b + e[k + 1] /\ e[k + 1] \in Nat
    BY <1>1, <2>1
  <2>3. g[k] \in Nat /\ g[k + 1] \in Nat /\ g[n] \in Nat /\ g[n] =< g[k]
    BY <1>1, <1>3, <2>1
  <2>4. g[k] * b >= g[k]
    <3> DEFINE x == g[k]
               c == b - 1
    <3>1. x \in Nat /\ c \in Nat /\ b = c + 1
      BY <2>3
    <3> HIDE DEF x, c
    <3>2. x * c \in Nat /\ x * (c + 1) = x * c + x
      BY <3>1
    <3>3. x * b >= x
      BY <3>1, <3>2
    <3>4. QED
      BY <3>3 DEF x
  <2>5. g[k] * b \in Nat
    BY <2>3, ProductIsNatural
  <2>6. QED
    BY <2>1, <2>2, <2>3, <2>4, <2>5, SMTT(30)
<1> HIDE DEF S
<1>4. \A k \in n..L : k \in S
  <2>1. n \in Int /\ L \in Int
    BY <1>1
  <2>2. QED
    BY <1>2, <1>3, <2>1, IntervalInduction
<1>5. QED
  BY <1>1, <1>4 DEF S

\* The text stands for the number.
LEMMA MeaningRight ==
    ASSUME NEW g, Horner(g, digits, base, Absolute(value)), Len(digits) \in Nat
    PROVE  Meaning = IF minus THEN -Absolute(value) ELSE Absolute(value)
<1> DEFINE L == Len(digits)
           upTo[n \in 0..L] == IF n = 0 THEN 0 ELSE upTo[n - 1] * base + digits[n]
<1>1. Meaning = IF minus THEN -upTo[L] ELSE upTo[L]
  BY DEF Meaning
<1>2. /\ L \in Nat /\ g \in [0..L -> Nat] /\ g[0] = 0 /\ g[L] = Absolute(value)
      /\ \A n \in 1..L : g[n] = g[n - 1] * base + digits[n]
  BY DEF Horner
<1> HIDE DEF L
<1>3. ASSUME NEW n \in 0..L PROVE g[n] = IF n = 0 THEN 0 ELSE g[n - 1] * base + digits[n]
  <2>1. n # 0 => n \in 1..L
    BY <1>2
  <2>2. QED
    BY <1>2, <2>1
<1>4. g = [n \in 0..L |-> IF n = 0 THEN 0 ELSE g[n - 1] * base + digits[n]]
  BY <1>2, <1>3
<1>5. upTo = [n \in 0..L |-> IF n = 0 THEN 0 ELSE upTo[n - 1] * base + digits[n]]
  BY <1>4, Zenon
<1> HIDE DEF upTo
<1>6. \A n \in 0..L : upTo[n] = IF n = 0 THEN 0 ELSE upTo[n - 1] * base + digits[n]
  BY <1>5
<1> DEFINE S == {n \in 0..L : upTo[n] = g[n]}
<1>7. 0 \in S
  BY <1>2, <1>6
<1>8. ASSUME NEW n \in 0..(L - 1), n \in S PROVE n + 1 \in S
  <2>1. n + 1 \in 0..L /\ n + 1 # 0 /\ (n + 1) - 1 = n /\ n + 1 \in 1..L
    BY <1>2
  <2>2. QED
    BY <1>2, <1>6, <1>8, <2>1
<1> HIDE DEF S
<1>9. \A n \in 0..L : n \in S
  <2>1. 0 \in Int /\ L \in Int
    BY <1>2
  <2>2. QED
    BY <1>7, <1>8, <2>1, IntervalInduction
<1>10. upTo[L] = Absolute(value)
  <2>1. L \in 0..L
    BY <1>2
  <2>2. QED
    BY <1>2, <1>9, <2>1 DEF S
<1>11. QED
  BY <1>1, <1>10

\* The loop that reads digits, when the number fits.
LEMMA NumberReads ==
    ASSUME NEW g, NEW e, NEW b \in Nat \ {0}, NEW v \in 0..(UintRange - 1), Horner(g, e, b, v),
           NEW p, NEW stop, NEW digitAt, Spells(digitAt, p, stop, e)
    PROVE  Number(p, stop, b, digitAt) = v
<1> DEFINE L == Len(e)
           upTo[k \in (p - 1)..(stop - 1)] ==
             IF k < p THEN 0 ELSE (upTo[k - 1] * b + digitAt[k]) % UintRange
           h == [k \in (p - 1)..(stop - 1) |-> g[k - (p - 1)]]
<1>1. Number(p, stop, b, digitAt) = upTo[stop - 1]
  BY DEF Number
<1>2. /\ L \in Nat /\ g \in [0..L -> Nat] /\ g[0] = 0 /\ g[L] = v
      /\ p \in Nat \ {0} /\ stop = p + L
      /\ \A n \in 1..L : g[n] = g[n - 1] * b + e[n] /\ digitAt[p + n - 1] = e[n]
  BY DEF Horner, Spells
<1>3. \A n \in 0..L : g[n] =< v
  BY HornerGrows DEF Spells
<1> HIDE DEF L
<1>4. UintRange \in Nat \ {0}
  BY DigitsAssumption DEF UintRange
<1>5. ASSUME NEW k \in (p - 1)..(stop - 1)
      PROVE  h[k] = IF k < p THEN 0 ELSE (h[k - 1] * b + digitAt[k]) % UintRange
  <2> DEFINE n == k - (p - 1)
  <2>1. CASE k < p
    <3>1. n = 0
      BY <1>2, <2>1
    <3>2. QED
      BY <1>2, <2>1, <3>1
  <2>2. CASE ~(k < p)
    <3>1. /\ n \in 1..L /\ n \in 0..L /\ n - 1 = (k - 1) - (p - 1) /\ k = p + n - 1
          /\ k - 1 \in (p - 1)..(stop - 1)
      BY <1>2, <2>2
    <3>2. h[k] = g[n] /\ h[k - 1] = g[n - 1]
      BY <3>1
    <3> HIDE DEF n, h
    <3>3. g[n] = g[n - 1] * b + digitAt[k]
      BY <1>2, <3>1
    <3>4. g[n] \in Nat /\ g[n] < UintRange
      BY <1>2, <1>3, <1>4, <3>1
    <3>5. g[n] % UintRange = g[n]
      BY <1>4, <3>4, SmallRest
    <3>6. QED
      BY <2>2, <3>2, <3>3, <3>5
  <2>3. QED
    BY <2>1, <2>2
<1>6. h = [k \in (p - 1)..(stop - 1) |->
            IF k < p THEN 0 ELSE (h[k - 1] * b + digitAt[k]) % UintRange]
  BY <1>5
<1>7. upTo = [k \in (p - 1)..(stop - 1) |->
               IF k < p THEN 0 ELSE (upTo[k - 1] * b + digitAt[k]) % UintRange]
  <2> HIDE DEF h
  <2>1. QED
    BY <1>6, Zenon
<1> HIDE DEF upTo
<1>8. \A k \in (p - 1)..(stop - 1) :
        upTo[k] = IF k < p THEN 0 ELSE (upTo[k - 1] * b + digitAt[k]) % UintRange
  BY <1>7
<1> DEFINE S == {k \in (p - 1)..(stop - 1) : upTo[k] = h[k]}
<1>9. p - 1 \in S
  <2>1. p - 1 \in (p - 1)..(stop - 1) /\ p - 1 < p
    BY <1>2
  <2> HIDE DEF h
  <2>2. QED
    BY <1>5, <1>8, <2>1
<1>10. ASSUME NEW k \in (p - 1)..(stop - 1 - 1), k \in S PROVE k + 1 \in S
  <2>1. /\ k + 1 \in (p - 1)..(stop - 1) /\ k \in (p - 1)..(stop - 1)
        /\ ~(k + 1 < p) /\ (k + 1) - 1 = k
    BY <1>2
  <2> HIDE DEF h
  <2>2. upTo[k] = h[k]
    BY <1>10
  <2>3. upTo[k + 1] = (upTo[k] * b + digitAt[k + 1]) % UintRange
    BY <1>8, <2>1
  <2>4. h[k + 1] = (h[k] * b + digitAt[k + 1]) % UintRange
    BY <1>5, <2>1
  <2>5. QED
    BY <2>1, <2>2, <2>3, <2>4
<1> HIDE DEF S
<1>11. \A k \in (p - 1)..(stop - 1) : k \in S
  <2>1. p - 1 \in Int /\ stop - 1 \in Int
    BY <1>2
  <2>2. QED
    BY <1>9, <1>10, <2>1, IntervalInduction
<1>12. upTo[stop - 1] = h[stop - 1]
  <2>1. stop - 1 \in (p - 1)..(stop - 1)
    BY <1>2
  <2>2. QED
    BY <1>11, <2>1 DEF S
<1>13. h[stop - 1] = v
  <2>1. stop - 1 \in (p - 1)..(stop - 1) /\ (stop - 1) - (p - 1) = L
    <3>1. p \in Nat \ {0} /\ L \in Nat /\ stop = p + L
      BY <1>2
    <3>2. QED
      BY ONLY <3>1
  <2>2. QED
    BY <1>2, <2>1
<1>14. QED
  BY <1>1, <1>12, <1>13

\* The classes that reading a number looks at.
LEMMA ReadClasses ==
    ASSUME NEW c \in Chars
    PROVE  /\ Isspace(c) <=> c \in 9..13 \/ c = 32
           /\ Isdigit(c) <=> c \in 48..57
           /\ Isupper(c) <=> c \in 65..90
           /\ Isalpha(c) <=> c \in 65..90 \/ c \in 97..122
<1>1. ctype_table[c] =
        CASE c \in 9..13                         -> {"C", "S"}
          [] c \in (0..8) \cup (14..31)          -> {"C"}
          [] c = 32                              -> {"S"}
          [] c \in 48..57                        -> {"D", "X"}
          [] c \in 65..70                        -> {"U", "X"}
          [] c \in 71..90                        -> {"U"}
          [] c \in 97..102                       -> {"L", "X"}
          [] c \in 103..122                      -> {"L"}
          [] c > 127                             -> {}
          [] OTHER                               -> {"P"}
  BY DEF ctype_table
<1>2. c \in 0..255
  BY DEF Chars
<1>3. /\ c \in 9..13 => ctype_table[c] = {"C", "S"}
      /\ c \in (0..8) \cup (14..31) => ctype_table[c] = {"C"}
      /\ c = 32 => ctype_table[c] = {"S"}
      /\ c \in 48..57 => ctype_table[c] = {"D", "X"}
      /\ c \in 65..70 => ctype_table[c] = {"U", "X"}
      /\ c \in 71..90 => ctype_table[c] = {"U"}
      /\ c \in 97..102 => ctype_table[c] = {"L", "X"}
      /\ c \in 103..122 => ctype_table[c] = {"L"}
      /\ c > 127 => ctype_table[c] = {}
      /\ c \in (33..47) \cup (58..64) \cup (91..96) \cup (123..127) => ctype_table[c] = {"P"}
  <2> DEFINE t == ctype_table[c]
  <2> HIDE DEF t
  <2>1. t =
        CASE c \in 9..13                         -> {"C", "S"}
          [] c \in (0..8) \cup (14..31)          -> {"C"}
          [] c = 32                              -> {"S"}
          [] c \in 48..57                        -> {"D", "X"}
          [] c \in 65..70                        -> {"U", "X"}
          [] c \in 71..90                        -> {"U"}
          [] c \in 97..102                       -> {"L", "X"}
          [] c \in 103..122                      -> {"L"}
          [] c > 127                             -> {}
          [] OTHER                               -> {"P"}
    BY <1>1 DEF t
  <2>2. c \in 9..13 => t = {"C", "S"}
    BY ONLY <1>2, <2>1
  <2>3. c \in (0..8) \cup (14..31) => t = {"C"}
    BY ONLY <1>2, <2>1
  <2>4. c = 32 => t = {"S"}
    BY ONLY <1>2, <2>1
  <2>5. c \in 48..57 => t = {"D", "X"}
    BY ONLY <1>2, <2>1
  <2>6. c \in 65..70 => t = {"U", "X"}
    BY ONLY <1>2, <2>1
  <2>7. c \in 71..90 => t = {"U"}
    BY ONLY <1>2, <2>1
  <2>8. c \in 97..102 => t = {"L", "X"}
    BY ONLY <1>2, <2>1
  <2>9. c \in 103..122 => t = {"L"}
    BY ONLY <1>2, <2>1
  <2>10. c > 127 => t = {}
    BY ONLY <1>2, <2>1
  <2>11. c \in (33..47) \cup (58..64) \cup (91..96) \cup (123..127) => t = {"P"}
    BY ONLY <1>2, <2>1
  <2>12. QED
    BY <2>2, <2>3, <2>4, <2>5, <2>6, <2>7, <2>8, <2>9, <2>10, <2>11, Zenon DEF t
<1>4. \/ c \in 9..13 \/ c \in (0..8) \cup (14..31) \/ c = 32 \/ c \in 48..57 \/ c \in 65..70
      \/ c \in 71..90 \/ c \in 97..102 \/ c \in 103..122 \/ c > 127
      \/ c \in (33..47) \cup (58..64) \cup (91..96) \cup (123..127)
  BY <1>2
<1>5. /\ Isspace(c) <=> "S" \in ctype_table[c]
      /\ Isdigit(c) <=> "D" \in ctype_table[c]
      /\ Isupper(c) <=> "U" \in ctype_table[c]
      /\ Isalpha(c) <=> "U" \in ctype_table[c] \/ "L" \in ctype_table[c]
  BY DEF Isspace, Isdigit, Isupper, Isalpha, Is
<1>6. "S" \in ctype_table[c] <=> c \in 9..13 \/ c = 32
  BY <1>3, <1>4
<1>7. "D" \in ctype_table[c] <=> c \in 48..57
  BY <1>3, <1>4
<1>8. "U" \in ctype_table[c] <=> c \in 65..90
  BY <1>3, <1>4
<1>9. "U" \in ctype_table[c] \/ "L" \in ctype_table[c] <=> c \in 65..90 \/ c \in 97..122
  BY <1>3, <1>4
<1>10. QED
  BY <1>5, <1>6, <1>7, <1>8, <1>9

\* What the readers make of the character of a digit.
LEMMA DigitChar ==
    ASSUME NEW d \in 0..35
    PROVE  /\ CharOf(d) \in 48..122 /\ DigitOf(CharOf(d)) = d
           /\ ~Isspace(CharOf(d)) /\ Tolower(CharOf(d)) = CharOf(d)
           /\ d < 10 => Isdigit(CharOf(d)) /\ CharOf(d) - 48 = d
           /\ CharOf(d) = 48 <=> d = 0
           /\ d < 33 => CharOf(d) < 120
<1> DEFINE c == CharOf(d)
<1>1. /\ c = IF d < 10 THEN 48 + d ELSE 87 + d
      /\ c \in 48..57 \/ c \in 97..122
  BY DEF CharOf
<1>2. c \in Chars
  BY <1>1 DEF Chars
<1> HIDE DEF c
<1>3. /\ Isspace(c) <=> c \in 9..13 \/ c = 32
      /\ Isdigit(c) <=> c \in 48..57
      /\ Isupper(c) <=> c \in 65..90
      /\ Isalpha(c) <=> c \in 65..90 \/ c \in 97..122
  BY <1>2, ReadClasses
<1>4. ~Isspace(c) /\ Tolower(c) = c
  BY <1>1, <1>3 DEF Tolower
<1>5. DigitOf(c) = d
  BY <1>1, <1>3, <1>4 DEF DigitOf
<1>6. /\ d < 10 => Isdigit(c) /\ c - 48 = d
      /\ c = 48 <=> d = 0
      /\ d < 33 => c < 120
      /\ c \in 48..122
  BY <1>1, <1>3
<1>7. QED
  BY <1>4, <1>5, <1>6 DEF c

\* The loops over blanks and digits.
LEMMA BlanksEnd ==
    ASSUME NEW s, NEW p \in Nat, NEW m \in Nat, p =< m, m =< Len(s), Len(s) \in Nat,
           \A r \in p..(m - 1) : Isspace(s[r]), ~Isspace(s[m])
    PROVE  AfterBlanks(s, p) = m
<1> DEFINE G == {k \in Int : Isspace(s[k])}
<1>1. m \in p..Len(s) /\ m \notin G /\ \A r \in p..(m - 1) : r \in G
  OBVIOUS
<1>2. m = CHOOSE q \in p..Len(s) : ~(q \in G) /\ \A r \in p..(q - 1) : r \in G
  <2> HIDE DEF G
  <2>1. QED
    BY <1>1, StopsAt
<1>3. \A q \in p..Len(s) : (~(q \in G) /\ \A r \in p..(q - 1) : r \in G)
                           <=> (~Isspace(s[q]) /\ \A r \in p..(q - 1) : Isspace(s[r]))
  <2>1. \A q \in p..Len(s) : q \in G <=> Isspace(s[q])
    OBVIOUS
  <2>2. \A q \in p..Len(s) : \A r \in p..(q - 1) : r \in G <=> Isspace(s[r])
    OBVIOUS
  <2> HIDE DEF G
  <2>3. QED
    BY <2>1, <2>2
<1> HIDE DEF G
<1>4. (CHOOSE q \in p..Len(s) : ~(q \in G) /\ \A r \in p..(q - 1) : r \in G)
      = (CHOOSE q \in p..Len(s) : ~Isspace(s[q]) /\ \A r \in p..(q - 1) : Isspace(s[r]))
  BY <1>3, Zenon
<1>5. QED
  BY <1>2, <1>4 DEF AfterBlanks, Loop

LEMMA DecimalsEnd ==
    ASSUME NEW s, NEW p \in Nat, NEW m \in Nat, p =< m, m =< Len(s), Len(s) \in Nat,
           \A r \in p..(m - 1) : Isdigit(s[r]), ~Isdigit(s[m])
    PROVE  DecimalEnd(s, p) = m
<1> DEFINE G == {k \in Int : Isdigit(s[k])}
<1>1. m \in p..Len(s) /\ m \notin G /\ \A r \in p..(m - 1) : r \in G
  OBVIOUS
<1>2. m = CHOOSE q \in p..Len(s) : ~(q \in G) /\ \A r \in p..(q - 1) : r \in G
  <2> HIDE DEF G
  <2>1. QED
    BY <1>1, StopsAt
<1>3. \A q \in p..Len(s) : (~(q \in G) /\ \A r \in p..(q - 1) : r \in G)
                           <=> (~Isdigit(s[q]) /\ \A r \in p..(q - 1) : Isdigit(s[r]))
  <2>1. \A q \in p..Len(s) : q \in G <=> Isdigit(s[q])
    OBVIOUS
  <2>2. \A q \in p..Len(s) : \A r \in p..(q - 1) : r \in G <=> Isdigit(s[r])
    OBVIOUS
  <2> HIDE DEF G
  <2>3. QED
    BY <2>1, <2>2
<1> HIDE DEF G
<1>4. (CHOOSE q \in p..Len(s) : ~(q \in G) /\ \A r \in p..(q - 1) : r \in G)
      = (CHOOSE q \in p..Len(s) : ~Isdigit(s[q]) /\ \A r \in p..(q - 1) : Isdigit(s[r]))
  BY <1>3, Zenon
<1>5. QED
  BY <1>2, <1>4 DEF DecimalEnd, Loop

LEMMA DigitsStop ==
    ASSUME NEW s, NEW b, NEW p \in Nat, NEW m \in Nat, p =< m, m =< Len(s), Len(s) \in Nat,
           \A r \in p..(m - 1) : InBase(s[r], b), ~InBase(s[m], b)
    PROVE  DigitsEnd(s, p, b) = m
<1> DEFINE G == {k \in Int : InBase(s[k], b)}
<1>1. m \in p..Len(s) /\ m \notin G /\ \A r \in p..(m - 1) : r \in G
  OBVIOUS
<1>2. m = CHOOSE q \in p..Len(s) : ~(q \in G) /\ \A r \in p..(q - 1) : r \in G
  <2> HIDE DEF G
  <2>1. QED
    BY <1>1, StopsAt
<1>3. \A q \in p..Len(s) : (~(q \in G) /\ \A r \in p..(q - 1) : r \in G)
                           <=> (~InBase(s[q], b) /\ \A r \in p..(q - 1) : InBase(s[r], b))
  <2>1. \A q \in p..Len(s) : q \in G <=> InBase(s[q], b)
    OBVIOUS
  <2>2. \A q \in p..Len(s) : \A r \in p..(q - 1) : r \in G <=> InBase(s[r], b)
    OBVIOUS
  <2> HIDE DEF G
  <2>3. QED
    BY <2>1, <2>2
<1> HIDE DEF G
<1>4. (CHOOSE q \in p..Len(s) : ~(q \in G) /\ \A r \in p..(q - 1) : r \in G)
      = (CHOOSE q \in p..Len(s) : ~InBase(s[q], b) /\ \A r \in p..(q - 1) : InBase(s[r], b))
  BY <1>3, Zenon
<1>5. QED
  BY <1>2, <1>4, Zenon DEF DigitsEnd, InBase, Loop

LEMMA HeldDigit ==
    ASSUME NEW s, NEW q, NEW e, Holds(s, q, e), NEW k \in 1..Len(e)
    PROVE  CharIs(s[q + k - 1], e[k])
<1> DEFINE d == e[k]
<1>1. d \in 0..35 /\ s[q + k - 1] = CharOf(d)
  BY DEF Holds
<1> HIDE DEF d
<1>2. CharIs(CharOf(d), d)
  BY <1>1, DigitChar, Zenon DEF CharIs
<1>3. QED
  BY <1>1, <1>2 DEF d

LEMMA CharFacts ==
    ASSUME NEW c, NEW d, CharIs(c, d)
    PROVE  d \in Nat /\ DigitOf(c) = d /\ c # Minus /\ c # Plus /\ c # NUL
<1>1. d \in 0..35 /\ c \in 48..122 /\ DigitOf(c) = d
  BY DEF CharIs
<1>2. QED
  BY <1>1 DEF Minus, Plus, NUL

LEMMA CharInBase ==
    ASSUME NEW c, NEW d, CharIs(c, d), NEW b \in 2..36, d < b
    PROVE  InBase(c, b)
<1>1. d \in 0..35 /\ c \in 48..122 /\ DigitOf(c) = d
  BY DEF CharIs
<1>2. QED
  BY <1>1 DEF InBase, NUL

LEMMA TextReads ==
    ASSUME NEW s, NEW q, NEW e, Holds(s, q, e), NEW b, NEW v, Represents(e, b, v)
    PROVE  ReadsAs(s, q, b, v)
<1> DEFINE L == Len(e)
           digitAt == [k \in q..(Len(s) - 1) |-> DigitOf(s[k])]
<1>1. /\ q \in Nat \ {0} /\ L \in Nat /\ Len(s) = q + L /\ s[q + L] = NUL
      /\ \A k \in 1..L : e[k] < b
      /\ b \in 2..36 /\ v \in 0..(UintRange - 1)
  BY DEF Holds, Represents
<1>2. PICK g : Horner(g, e, b, v)
  BY DEF Represents
<1>3. \A k \in 1..L : CharIs(s[q + k - 1], e[k])
  BY HeldDigit
<1>4. \A k \in 1..L : InBase(s[q + k - 1], b)
  BY <1>1, <1>3, CharInBase
<1>5. \A k \in 1..L : DigitOf(s[q + k - 1]) = e[k] /\ e[k] \in Nat
  BY <1>3, CharFacts
<1>6. Spells(digitAt, q, Len(s), e)
  <2>1. \A k \in 1..L : q + k - 1 \in q..(Len(s) - 1)
    BY <1>1
  <2>2. \A k \in 1..L : digitAt[q + k - 1] = e[k]
    BY <1>5, <2>1
  <2> HIDE DEF digitAt
  <2>3. QED
    BY <1>1, <1>5, <2>2 DEF Spells
<1> HIDE DEF L, digitAt
<1>7. Number(q, Len(s), b, digitAt) = v
  <2>1. b \in Nat \ {0}
    BY <1>1
  <2>2. QED
    BY <1>1, <1>2, <1>6, <2>1, NumberReads
<1>8. ASSUME NEW r \in q..(Len(s) - 1) PROVE InBase(s[r], b)
  <2>1. r - q + 1 \in 1..L /\ q + (r - q + 1) - 1 = r
    BY <1>1
  <2>2. QED
    BY <1>4, <2>1
<1>9. ~InBase(s[Len(s)], b)
  BY <1>1 DEF InBase
<1>10. DigitsEnd(s, q, b) = Len(s)
  <2>1. Len(s) \in Nat /\ q \in Nat /\ q =< Len(s)
    BY <1>1
  <2>2. QED
    BY <1>8, <1>9, <2>1, DigitsStop
<1>11. QED
  BY <1>7, <1>10 DEF ReadsAs, digitAt

LEMMA NoBlankNoSign ==
    ASSUME NEW s, NEW q, StartsAt(s, q)
    PROVE  AfterBlanks(s, q) = q /\ AfterSign(s, q) = q
<1>1. AfterBlanks(s, q) = q
  <2>1. \A r \in q..(q - 1) : Isspace(s[r])
    BY DEF StartsAt
  <2>2. q \in Nat /\ q =< q /\ q =< Len(s) /\ Len(s) \in Nat /\ ~Isspace(s[q])
    BY DEF StartsAt
  <2>3. QED
    BY <2>1, <2>2, BlanksEnd
<1>2. AfterSign(s, q) = q
  BY DEF AfterSign, StartsAt
<1>3. QED
  BY <1>1, <1>2

LEMMA StrtoulFrom ==
    ASSUME NEW s, NEW q, StartsAt(s, q), NEW b0, NEW v,
           ReadsAs(s, FirstOf(s, q, b0), BaseOf(s, q, b0), v)
    PROVE  Strtoul(s, q, b0) = [value |-> v, endptr |-> Len(s)]
<1> DEFINE z == AfterSign(s, AfterBlanks(s, q))
           p(x) == FirstOf(s, x, b0)
           b(x) == BaseOf(s, x, b0)
           end(x) == DigitsEnd(s, p(x), b(x))
<1>1. z = q
  BY NoBlankNoSign
<1>2. Strtoul(s, q, b0) =
        [value |-> Number(p(z), end(z), b(z), [k \in p(z)..(end(z) - 1) |-> DigitOf(s[k])]),
         endptr |-> end(z)]
  BY Zenon DEF Strtoul, BaseOf, FirstOf, Hex, DigitsEnd
<1> HIDE DEF z
<1>3. end(q) = Len(s) /\ Number(p(q), Len(s), b(q), [k \in p(q)..(Len(s) - 1) |-> DigitOf(s[k])]) = v
  BY DEF ReadsAs
<1>4. QED
  BY <1>1, <1>2, <1>3

\* The first character of the digits.
LEMMA FirstChar ==
    ASSUME NEW s, NEW q, NEW e, Holds(s, q, e), Len(e) > 0
    PROVE  StartsAt(s, q) /\ (s[q] = 48 <=> e[1] = 0) /\ CharIs(s[q], e[1])
<1>1. q \in Nat \ {0} /\ Len(e) \in Nat /\ Len(s) = q + Len(e)
  BY DEF Holds
<1>2. 1 \in 1..Len(e) /\ q + 1 - 1 = q /\ Len(s) \in Nat /\ q =< Len(s)
  BY <1>1
<1>3. \A k \in 1..Len(e) : CharIs(s[q + k - 1], e[k])
  BY HeldDigit
<1>4. CharIs(s[q], e[1])
  BY <1>2, <1>3
<1>5. s[q] # Minus /\ s[q] # Plus
  BY <1>4, CharFacts
<1>6. ~Isspace(s[q]) /\ (s[q] = 48 <=> e[1] = 0)
  BY <1>4, Zenon DEF CharIs
<1>7. QED
  BY <1>1, <1>2, <1>4, <1>5, <1>6 DEF StartsAt

\* A digit is not the x of 0x, unless it is one of base 34 or more.
LEMMA NoPrefix ==
    ASSUME NEW s, NEW q, NEW e, Holds(s, q, e), Len(e) > 0, NEW b \in 0..33,
           \A k \in 1..Len(e) : e[k] < b
    PROVE  ~Hex(s, q)
<1>1. q \in Nat \ {0} /\ Len(e) \in Nat /\ s[q + Len(e)] = NUL
  BY DEF Holds
<1>2. CASE Len(e) = 1
  <2>1. s[q + 1] = 0 /\ 0 \in Chars
    BY <1>1, <1>2 DEF NUL, Chars
  <2>2. Isupper(0) <=> 0 \in 65..90
    BY <2>1, ReadClasses
  <2>3. Tolower(0) = 0
    BY <2>2 DEF Tolower
  <2>4. QED
    BY <2>1, <2>3 DEF Hex
<1>3. CASE Len(e) > 1
  <2> DEFINE d == e[2]
             c == s[q + 1]
  <2>1. 2 \in 1..Len(e) /\ q + 2 - 1 = q + 1
    BY <1>1, <1>3
  <2>2. CharIs(c, d) /\ d < b
    <3>1. \A k \in 1..Len(e) : CharIs(s[q + k - 1], e[k])
      BY HeldDigit
    <3>2. QED
      BY <2>1, <3>1
  <2> HIDE DEF d, c
  <2>3. d \in 0..35 /\ c \in 48..122 /\ Tolower(c) = c /\ (d < 33 => c < 120)
    BY <2>2, Zenon DEF CharIs
  <2>4. c # 120
    BY <2>2, <2>3
  <2>5. QED
    BY <2>3, <2>4 DEF Hex, c
<1> DEFINE L == Len(e)
<1>4. L \in Nat /\ L > 0
  BY <1>1
<1> HIDE DEF L
<1>5. L = 1 \/ L > 1
  BY ONLY <1>4
<1>6. QED
  BY ONLY <1>2, <1>3, <1>5 DEF L

\* strtoul reads a number in the base it is given.
LEMMA StrtoulReads ==
    ASSUME NEW s, NEW q, NEW e, Holds(s, q, e), Len(e) > 0, NEW b, NEW v, Represents(e, b, v)
    PROVE  Strtoul(s, q, b) = [value |-> v, endptr |-> Len(s)]
<1>1. StartsAt(s, q) /\ ReadsAs(s, q, b, v)
  BY FirstChar, TextReads
<1>2. b \in 2..36 /\ \A k \in 1..Len(e) : e[k] < b
  BY DEF Represents
<1>3. BaseOf(s, q, b) = b
  BY <1>2 DEF BaseOf
<1>4. FirstOf(s, q, b) = q
  <2>1. CASE b = 16
    <3>1. b \in 0..33
      BY <2>1
    <3>2. ~Hex(s, q)
      BY <1>2, <3>1, NoPrefix
    <3>3. QED
      BY <2>1, <3>2 DEF FirstOf
  <2>2. CASE b # 16
    BY <1>2, <2>2 DEF FirstOf
  <2>3. QED
    BY <2>1, <2>2
<1>5. QED
  BY <1>1, <1>3, <1>4, StrtoulFrom

\* Left to find the base, strtoul takes a number without leading zeros for
\* decimal, and 0 for an octal one without digits.
LEMMA StrtoulFinds ==
    ASSUME NEW s, NEW q, NEW e, Holds(s, q, e), Len(e) > 0, Len(e) > 1 => e[1] # 0,
           NEW v, Represents(e, 10, v)
    PROVE  Strtoul(s, q, 0) = [value |-> v, endptr |-> Len(s)]
<1>1. StartsAt(s, q) /\ (s[q] = 48 <=> e[1] = 0)
  BY FirstChar
<1>2. \A k \in 1..Len(e) : e[k] < 10
  BY DEF Represents
<1>3. ~Hex(s, q)
  <2>1. 10 \in 0..33
    OBVIOUS
  <2>2. QED
    BY <1>2, <2>1, NoPrefix, Zenon
<1>4. CASE s[q] # 48
  <2>1. BaseOf(s, q, 0) = 10 /\ FirstOf(s, q, 0) = q
    BY <1>3, <1>4 DEF BaseOf, FirstOf
  <2>2. ReadsAs(s, q, 10, v)
    BY TextReads
  <2>3. QED
    BY <1>1, <2>1, <2>2, StrtoulFrom
<1>5. CASE s[q] = 48
  <2>1. q \in Nat \ {0} /\ Len(e) \in Nat /\ Len(s) = q + Len(e) /\ s[q + Len(e)] = NUL
    BY DEF Holds
  <2>2. e[1] = 0
    BY <1>1, <1>5
  <2>3. ~(Len(e) > 1)
    BY <2>2, Zenon
  <2>4. Len(e) = 1
    <3> DEFINE L == Len(e)
    <3>1. L \in Nat /\ L > 0 /\ ~(L > 1)
      BY <2>1, <2>3
    <3> HIDE DEF L
    <3>2. L = 1
      BY ONLY <3>1
    <3>3. QED
      BY ONLY <3>2 DEF L
  <2>5. BaseOf(s, q, 0) = 8 /\ FirstOf(s, q, 0) = q + 1
    BY <1>3, <1>5 DEF BaseOf, FirstOf
  <2>6. v = 0
    <3>1. PICK g : Horner(g, e, 10, v)
      BY DEF Represents
    <3>2. g[0] = 0 /\ g[1] = v /\ g[1] = g[1 - 1] * 10 + e[1]
      BY <2>4, <3>1 DEF Horner
    <3>3. QED
      BY <2>2, <3>2
  <2> DEFINE h == [k \in 0..0 |-> 0]
             none == <<>>
  <2>7. Len(none) = 0 /\ 1..0 = {}
    OBVIOUS
  <2>8. Holds(s, q + 1, none)
    BY <2>1, <2>4, <2>7 DEF Holds
  <2>9. Represents(none, 8, v)
    <3>1. Horner(h, none, 8, v)
      BY <2>6, <2>7 DEF Horner
    <3>2. 8 \in 2..36 /\ v \in 0..(UintRange - 1)
      BY DEF Represents
    <3>3. \A k \in 1..Len(none) : none[k] < 8
      BY <2>7
    <3> HIDE DEF h, none
    <3>4. QED
      BY <3>1, <3>2, <3>3 DEF Represents
  <2> HIDE DEF h, none
  <2>10. ReadsAs(s, q + 1, 8, v)
    BY <2>8, <2>9, TextReads
  <2>11. QED
    BY <1>1, <2>5, <2>10, StrtoulFrom
<1>6. QED
  BY <1>4, <1>5

\* Behind 0X a number is read in base 16.
LEMMA StrtoulHex ==
    ASSUME NEW s, NEW e, Holds(s, 3, e), s[1] = 48, s[2] = 88, NEW b0 \in {0, 16},
           NEW v, Represents(e, 16, v)
    PROVE  Strtoul(s, 1, b0) = [value |-> v, endptr |-> Len(s)] /\ StartsAt(s, 1)
<1>1. 48 \in Chars /\ 88 \in Chars
  BY DEF Chars
<1>2. ~Isspace(48)
  <2>1. Isspace(48) <=> 48 \in 9..13 \/ 48 = 32
    BY <1>1, ReadClasses
  <2>2. QED
    BY <2>1
<1>3. Tolower(88) = 120
  <2>1. Isupper(88) <=> 88 \in 65..90
    BY <1>1, ReadClasses
  <2>2. QED
    BY <2>1 DEF Tolower
<1>4. s[1 + 1] = 88
  OBVIOUS
<1>5. Hex(s, 1)
  BY <1>3, <1>4 DEF Hex
<1>6. BaseOf(s, 1, b0) = 16 /\ FirstOf(s, 1, b0) = 3
  BY <1>5 DEF BaseOf, FirstOf
<1>7. ReadsAs(s, 3, 16, v)
  BY TextReads
<1>8. StartsAt(s, 1)
  <2>1. Len(s) \in Nat /\ 1 =< Len(s)
    BY DEF Holds
  <2>2. QED
    BY <1>2, <2>1 DEF StartsAt, Minus, Plus
<1>9. QED
  BY <1>6, <1>7, <1>8, StrtoulFrom

\* A text of characters z, digits e and the 0 that ends it.
LEMMA HoldsBehind ==
    ASSUME NEW z \in Seq(Nat), NEW e, Len(e) \in Nat, \A k \in 1..Len(e) : e[k] \in 0..35
    PROVE  /\ Holds(z \o Chs(e) \o <<NUL>>, Len(z) + 1, e)
           /\ \A k \in 1..Len(z) : (z \o Chs(e) \o <<NUL>>)[k] = z[k]
           /\ Len(z \o Chs(e) \o <<NUL>>) = Len(z) + Len(e) + 1
<1> DEFINE L == Len(e)
           u == Chs(e)
           m == Len(z)
           s == z \o u \o <<NUL>>
<1>1. L \in Nat /\ m \in Nat /\ \A k \in 1..L : e[k] \in 0..35
  OBVIOUS
<1>2. \A k \in 1..L : u[k] = CharOf(e[k])
  BY DEF Chs
<1>3. \A k \in 1..L : u[k] \in Nat
  <2>1. \A d \in 0..35 : CharOf(d) \in Nat
    BY DEF CharOf
  <2>2. QED
    BY <1>1, <1>2, <2>1
<1>4. u \in Seq(Nat) /\ Len(u) = L
  <2>1. u = [k \in 1..L |-> CharOf(e[k])]
    BY DEF Chs
  <2>2. u \in [1..L -> Nat]
    BY <1>3, <2>1 DEF Chs
  <2> HIDE DEF u, L
  <2>3. u \in Seq(Nat)
    BY <1>1, <2>2
  <2>4. Len(u) \in Nat /\ DOMAIN u = 1..Len(u) /\ DOMAIN u = 1..L
    BY <2>2, <2>3
  <2>5. Len(u) = L
    <3> DEFINE n == Len(u)
    <3>1. n \in Nat /\ 1..n = 1..L
      BY <2>4
    <3> HIDE DEF n
    <3>2. \A k \in Int : k \in 1..n <=> k \in 1..L
      BY ONLY <3>1
    <3>3. n \in 1..n <=> n \in 1..L
      BY ONLY <3>1, <3>2
    <3>4. L \in 1..n <=> L \in 1..L
      BY ONLY <1>1, <3>2
    <3>5. n = L
      BY ONLY <1>1, <3>1, <3>3, <3>4
    <3>6. QED
      BY ONLY <3>5 DEF n
  <2>6. QED
    BY <2>3, <2>5
<1> HIDE DEF u, L, m
<1>5. NUL \in Nat
  BY DEF NUL
<1>6. /\ Len(s) = m + L + 1 /\ s[m + L + 1] = NUL
      /\ \A k \in 1..m : s[k] = z[k]
      /\ \A k \in 1..L : s[m + k] = u[k]
  <2>1. Len(z \o u) = m + L
    BY <1>4, ConcatProperties, Zenon DEF m
  <2>2. \A k \in 1..m : (z \o u)[k] = z[k]
    BY <1>1, <1>4 DEF m
  <2>3. \A k \in 1..L : (z \o u)[m + k] = u[k]
    BY <1>1, <1>4 DEF m
  <2> DEFINE w == z \o u
  <2>4. w \in Seq(Nat)
    BY <1>4
  <2> HIDE DEF w
  <2>5. Len(w \o <<NUL>>) = Len(w) + 1 /\ (w \o <<NUL>>)[Len(w) + 1] = NUL
    BY <1>5, <2>4
  <2>6. \A k \in 1..Len(w) : (w \o <<NUL>>)[k] = w[k]
    BY <1>5, <2>4
  <2>7. \A k \in 1..m : k \in 1..(m + L)
    BY <1>1
  <2>8. \A k \in 1..L : m + k \in 1..(m + L)
    BY <1>1
  <2>9. s = w \o <<NUL>> /\ Len(w) = m + L
    BY <2>1 DEF w
  <2> HIDE DEF s
  <2>10. \A k \in 1..m : s[k] = z[k]
    BY <2>2, <2>6, <2>7, <2>9 DEF w
  <2>11. \A k \in 1..L : s[m + k] = u[k]
    BY <2>3, <2>6, <2>8, <2>9 DEF w
  <2>12. QED
    BY <2>5, <2>9, <2>10, <2>11
<1> HIDE DEF s
<1>7. \A k \in 1..L : (m + 1) + k - 1 = m + k
  BY <1>1
<1>8. \A k \in 1..L : e[k] \in 0..35 /\ s[(m + 1) + k - 1] = CharOf(e[k])
  BY <1>1, <1>2, <1>6, <1>7
<1>9. m + 1 \in Nat \ {0} /\ Len(s) = (m + 1) + L /\ s[(m + 1) + L] = NUL
  <2>1. m + L + 1 = (m + 1) + L
    BY <1>1
  <2>2. QED
    BY <1>1, <1>6, <2>1
<1>10. Holds(s, m + 1, e)
  BY <1>1, <1>8, <1>9 DEF Holds, L
<1>11. QED
  BY <1>6, <1>10 DEF s, u, m, L

LEMMA StrtolSigned ==
    ASSUME NEW s, NEW p, NEW q, NEW neg \in BOOLEAN, SignAt(s, p, q, neg),
           NEW b0, NEW v, NEW end, Strtoul(s, q, b0) = [value |-> v, endptr |-> end]
    PROVE  Strtol(s, b0) = [value |-> Wrap(IF neg THEN -v ELSE v), endptr |-> end]
<1> DEFINE z == AfterBlanks(s, 1)
<1>1. z = p
  BY DEF SignAt
<1>2. AfterSign(s, z) = q /\ (s[z] = Minus <=> neg)
  BY <1>1 DEF SignAt, AfterSign
<1>3. Strtol(s, b0) = [Strtoul(s, AfterSign(s, z), b0) EXCEPT !.value = Wrap(IF s[z] = Minus THEN -@ ELSE @)]
  BY DEF Strtol
<1> HIDE DEF z
<1>4. QED
  BY <1>2, <1>3

\* Blanks, a sign and digits, as atoi and strtol find them.
LEMMA SignedText ==
    ASSUME NEW z \in Seq(Nat), \A k \in 1..Len(z) : Isspace(z[k]), NEW neg \in BOOLEAN,
           NEW e, Len(e) \in Nat, Len(e) > 0, \A k \in 1..Len(e) : e[k] \in 0..35,
           NEW s, s = (z \o SignOf(neg)) \o Chs(e) \o <<NUL>>,
           NEW q, q = Len(z) + (IF neg THEN 2 ELSE 1)
    PROVE  SignAt(s, Len(z) + 1, q, neg) /\ Holds(s, q, e)
<1> DEFINE w == z \o SignOf(neg)
           m == Len(z)
           sign == SignOf(neg)
<1>1. m \in Nat /\ sign \in Seq(Nat) /\ Len(sign) = IF neg THEN 1 ELSE 0
  BY DEF SignOf, Minus
<1>2. w \in Seq(Nat) /\ Len(w) = m + Len(sign)
  <2> HIDE DEF sign
  <2>1. QED
    BY <1>1, ConcatProperties, Zenon DEF sign
<1>3. Len(w) + 1 = q /\ m \in Nat /\ q \in Nat /\ m + 1 =< q
  <2> HIDE DEF sign, w, m
  <2>1. q = m + (IF neg THEN 2 ELSE 1)
    BY DEF m
  <2>2. QED
    BY ONLY <1>1, <1>2, <2>1, neg \in BOOLEAN
<1>4. \A k \in 1..m : w[k] = z[k]
  BY <1>1
<1>5. neg => w[m + 1] = Minus
  BY <1>1 DEF SignOf
<1> HIDE DEF w, sign
<1>6. Holds(w \o Chs(e) \o <<NUL>>, Len(w) + 1, e)
      /\ \A k \in 1..Len(w) : (w \o Chs(e) \o <<NUL>>)[k] = w[k]
  BY <1>2, HoldsBehind
<1>7. s = w \o Chs(e) \o <<NUL>>
  BY DEF w
<1>8. Holds(s, q, e) /\ \A k \in 1..Len(w) : s[k] = w[k]
  BY <1>3, <1>6, <1>7
<1> HIDE DEF m
<1>9. Len(s) \in Nat /\ q =< Len(s)
  BY <1>8 DEF Holds
<1>10. \A k \in 1..m : k \in 1..Len(w)
  <2> DEFINE n == Len(w)
  <2>1. n \in Nat /\ m \in Nat /\ n + 1 = q /\ m + 1 =< q
    BY <1>2, <1>3
  <2> HIDE DEF n
  <2>2. \A k \in 1..m : k \in 1..n
    BY ONLY <2>1
  <2>3. QED
    BY <2>2 DEF n
<1>11. \A k \in 1..m : Isspace(s[k])
  <2>1. \A k \in 1..m : Isspace(z[k])
    BY DEF m
  <2>2. \A k \in 1..m : s[k] = z[k]
    BY <1>4, <1>8, <1>10, Zenon
  <2>3. QED
    BY <2>1, <2>2, Zenon
<1>12. \A k \in 1..((m + 1) - 1) : Isspace(s[k])
  <2>1. (m + 1) - 1 = m
    BY ONLY <1>1
  <2>2. QED
    BY <1>11, <2>1, Zenon
<1>13. CASE neg
  <2>1. m + 1 \in 1..Len(w) /\ q = (m + 1) + 1
    BY <1>1, <1>2, <1>3, <1>13
  <2>2. s[m + 1] = Minus
    BY <1>5, <1>8, <1>13, <2>1
  <2>3. ~Isspace(Minus)
    <3>1. Minus \in Chars /\ Minus = 45
      BY DEF Minus, Chars
    <3>2. Isspace(Minus) <=> Minus \in 9..13 \/ Minus = 32
      BY <3>1, ReadClasses
    <3>3. QED
      BY <3>1, <3>2
  <2>4. AfterBlanks(s, 1) = m + 1
    <3>1. 1 \in Nat /\ m + 1 \in Nat /\ 1 =< m + 1 /\ m + 1 =< Len(s)
      BY <1>1, <1>3, <1>9
    <3>2. QED
      BY <1>9, <1>12, <2>2, <2>3, <3>1, BlanksEnd
  <2>5. QED
    BY <1>8, <1>13, <2>1, <2>2, <2>4 DEF SignAt, m
<1>14. CASE ~neg
  <2>1. q = m + 1
    BY <1>14 DEF m
  <2>2. StartsAt(s, q)
    BY <1>8, FirstChar
  <2>3. ~Isspace(s[m + 1]) /\ s[m + 1] # Minus /\ s[m + 1] # Plus
    BY <2>1, <2>2 DEF StartsAt
  <2>4. AfterBlanks(s, 1) = m + 1
    <3>1. 1 \in Nat /\ m + 1 \in Nat /\ 1 =< m + 1 /\ m + 1 =< Len(s)
      BY <1>1, <1>3, <1>9
    <3>2. QED
      BY <1>9, <1>12, <2>3, <3>1, BlanksEnd
  <2>5. QED
    BY <1>8, <1>14, <2>1, <2>3, <2>4 DEF SignAt, m
<1>15. QED
  BY <1>13, <1>14

\* atoi reads a decimal number.
LEMMA AtoiReads ==
    ASSUME NEW s, NEW p, NEW q, NEW neg \in BOOLEAN, SignAt(s, p, q, neg),
           NEW e, Holds(s, q, e), NEW v, Represents(e, 10, v)
    PROVE  Atoi(s) = Wrap(IF neg THEN -v ELSE v)
<1> DEFINE L == Len(e)
           z == AfterBlanks(s, 1)
           y == AfterSign(s, z)
           end(x) == DecimalEnd(s, x)
           digitAt(x, x2) == [k \in x..(x2 - 1) |-> s[k] - 48]
<1>1. z = p /\ (s[p] = Minus <=> neg)
  BY DEF SignAt
<1>2. y = q
  BY <1>1 DEF SignAt, AfterSign
<1>3. Atoi(s) = Wrap(IF s[z] = Minus THEN -Number(y, end(y), 10, digitAt(y, end(y)))
                     ELSE Number(y, end(y), 10, digitAt(y, end(y))))
  BY Zenon DEF Atoi, DecimalEnd
<1> HIDE DEF z, y
<1>4. /\ q \in Nat \ {0} /\ L \in Nat /\ Len(s) = q + L /\ s[q + L] = NUL
      /\ \A k \in 1..L : e[k] < 10
      /\ v \in 0..(UintRange - 1)
  BY DEF Holds, Represents
<1>5. \A k \in 1..L : CharIs(s[q + k - 1], e[k])
  BY HeldDigit
<1>6. \A k \in 1..L : Isdigit(s[q + k - 1]) /\ s[q + k - 1] - 48 = e[k]
  BY <1>4, <1>5, Zenon DEF CharIs
<1>7. \A k \in 1..L : e[k] \in Nat
  BY <1>5, CharFacts
<1> HIDE DEF L
<1>8. end(q) = Len(s)
  <2>1. ASSUME NEW r \in q..(Len(s) - 1) PROVE Isdigit(s[r])
    <3>1. r - q + 1 \in 1..L /\ q + (r - q + 1) - 1 = r
      BY <1>4
    <3>2. QED
      BY <1>6, <3>1
  <2>2. ~Isdigit(s[Len(s)])
    <3>1. s[Len(s)] = 0 /\ 0 \in Chars
      BY <1>4 DEF NUL, Chars
    <3>2. Isdigit(0) <=> 0 \in 48..57
      BY <3>1, ReadClasses
    <3>3. QED
      BY <3>1, <3>2
  <2>3. Len(s) \in Nat /\ q \in Nat /\ q =< Len(s) /\ Len(s) =< Len(s)
    BY <1>4
  <2>4. QED
    BY <2>1, <2>2, <2>3, DecimalsEnd
<1> DEFINE d == digitAt(q, Len(s))
<1>9. Spells(d, q, Len(s), e)
  <2>1. \A k \in 1..L : q + k - 1 \in q..(Len(s) - 1)
    BY <1>4
  <2>2. \A k \in 1..L : d[q + k - 1] = e[k]
    BY <1>6, <2>1
  <2> HIDE DEF d
  <2>3. QED
    BY <1>4, <1>7, <2>2 DEF Spells, L
<1>10. PICK g : Horner(g, e, 10, v)
  BY DEF Represents
<1> HIDE DEF d
<1>11. Number(q, Len(s), 10, d) = v
  <2>1. 10 \in Nat \ {0}
    OBVIOUS
  <2>2. QED
    BY <1>4, <1>9, <1>10, <2>1, NumberReads
<1>12. Number(q, end(q), 10, digitAt(q, end(q))) = v
  BY <1>8, <1>11, Zenon DEF d
<1> HIDE DEF end, digitAt
<1>13. QED
  BY <1>1, <1>2, <1>3, <1>12

\* What is known of the digits when they are printed.
LEMMA DigitsPrinted ==
    ASSUME DigInv, dig_pc = "done", ~Smallest
    PROVE  /\ Len(digits) \in Nat /\ Len(digits) > 0
           /\ \A k \in 1..Len(digits) : digits[k] \in 0..(base - 1) /\ digits[k] \in 0..35
           /\ Len(digits) > 1 => digits[1] # 0
           /\ Represents(digits, base, Absolute(value))
           /\ minus \in BOOLEAN /\ base \in 2..36 /\ (base # 10 => minus = FALSE)
           /\ Shown = IF minus THEN -Absolute(value) ELSE Absolute(value)
           /\ base = 10 => Shown = value
<1>1. /\ Len(digits) \in Nat /\ Len(digits) > 0
      /\ \A k \in 1..Len(digits) : digits[k] \in 0..(base - 1)
      /\ Len(digits) > 1 => digits[1] # 0
      /\ \E g : Horner(g, digits, base, Absolute(value))
  BY DigitsInOrder
<1>2. /\ value \in Numbers /\ base \in 2..36 /\ minus \in BOOLEAN
      /\ (minus <=> value < 0 /\ base = 10)
  BY Zenon DEF DigInv, DigTypeOK, WritesMinus
<1>3. value \in Int /\ Absolute(value) \in 0..(UintRange - 1)
  BY <1>2, NumberKinds
<1>4. base # 10 => minus = FALSE
  BY <1>2, Zenon
<1>5. base = 10 => Shown = value
  BY DEF Shown
<1>6. Shown = IF minus THEN -Absolute(value) ELSE Absolute(value)
  <2>1. CASE minus
    <3>1. value < 0 /\ base = 10
      BY <1>2, <2>1, Zenon
    <3>2. Shown = -Absolute(value)
      BY <1>3, <3>1 DEF Shown, Absolute
    <3>3. QED
      BY <2>1, <3>2, Zenon
  <2>2. CASE ~minus
    <3>1. ~(value < 0 /\ base = 10)
      BY <1>2, <2>2, Zenon
    <3>2. Shown = Absolute(value)
      BY <1>3, <3>1 DEF Shown, Absolute
    <3>3. QED
      BY <2>2, <3>2, Zenon
  <2>3. QED
    BY <2>1, <2>2, Zenon
<1>8. \A k \in 1..Len(digits) : digits[k] \in 0..35 /\ digits[k] < base
  <2>1. \A d \in 0..(base - 1) : d \in 0..35 /\ d < base
    BY <1>2
  <2>2. QED
    BY <1>1, <2>1, Zenon
<1>9. Represents(digits, base, Absolute(value))
  BY <1>1, <1>2, <1>3, <1>8, Zenon DEF Represents
<1>10. QED
  BY <1>1, <1>2, <1>4, <1>5, <1>6, <1>8, <1>9, Zenon

\* The text is made of the sign, the digits and the 0.
LEMMA TextIs ==
    ASSUME minus \in BOOLEAN, Len(digits) \in Nat, \A k \in 1..Len(digits) : digits[k] \in 0..35,
           NEW z \in Seq(Nat)
    PROVE  /\ Text = (<<>> \o SignOf(minus)) \o Chs(digits) \o <<NUL>>
           /\ z \o Text = (z \o SignOf(minus)) \o Chs(digits) \o <<NUL>>
           /\ Len(z \o Text) = Len(z) + Len(Text) /\ Len(Text) \in Nat
<1> DEFINE sign == SignOf(minus)
           u == Chs(digits)
           t == <<NUL>>
<1>1. sign \in Seq(Nat) /\ t \in Seq(Nat)
  BY DEF SignOf, Minus, NUL
<1>2. u \in Seq(Nat)
  <2>1. \A d \in 0..35 : CharOf(d) \in Nat
    BY DEF CharOf
  <2>2. \A k \in 1..Len(digits) : CharOf(digits[k]) \in Nat
    BY <2>1
  <2>3. u \in [1..Len(digits) -> Nat]
    BY <2>2 DEF Chs
  <2> HIDE DEF u
  <2>4. QED
    BY <2>3
<1>3. Text = sign \o u \o t
  BY Zenon DEF Text, SignOf, Chs
<1> HIDE DEF sign, u, t
<1>4. sign \o u \in Seq(Nat) /\ z \o sign \in Seq(Nat)
  BY <1>1, <1>2, ConcatProperties
<1>5. <<>> \o sign = sign
  BY <1>1, ConcatEmptySeq
<1>6. z \o ((sign \o u) \o t) = (z \o (sign \o u)) \o t
  <2> DEFINE a == sign \o u
  <2>1. a \in Seq(Nat)
    BY <1>4
  <2> HIDE DEF a
  <2>2. (z \o a) \o t = z \o (a \o t)
    BY ONLY <1>1, <2>1, z \in Seq(Nat), ConcatAssociative, SMTT(30)
  <2>3. QED
    BY <2>2 DEF a
<1>7. z \o (sign \o u) = (z \o sign) \o u
  <2>1. (z \o sign) \o u = z \o (sign \o u)
    BY ONLY <1>1, <1>2, z \in Seq(Nat), ConcatAssociative, SMTT(30)
  <2>2. QED
    BY <2>1
<1>8. Text \in Seq(Nat)
  BY <1>1, <1>3, <1>4, ConcatProperties
<1>9. Len(z \o Text) = Len(z) + Len(Text) /\ Len(Text) \in Nat
  <2> DEFINE x == Text
  <2>1. x \in Seq(Nat)
    BY <1>8
  <2> HIDE DEF x
  <2>2. Len(z \o x) = Len(z) + Len(x) /\ Len(x) \in Nat
    BY <2>1, ConcatProperties
  <2>3. QED
    BY <2>2 DEF x
<1>10. QED
  BY <1>3, <1>5, <1>6, <1>7, <1>9, Zenon DEF sign, u, t

\* The readers return what the text says.
LEMMA ReadBack ==
    ASSUME DigInv, dig_pc = "done", ~Smallest
    PROVE  /\ Strtol(Text, base) = [value |-> Wrap(Shown), endptr |-> Len(Text)]
           /\ ~minus => Strtoul(Text, 1, base) = [value |-> Shown, endptr |-> Len(Text)]
           /\ base = 10 => Atoi(Text) = Wrap(value)
<1> DEFINE z == <<>>
           q == IF minus THEN 2 ELSE 1
           v == Absolute(value)
           n == IF minus THEN -v ELSE v
           s == Text
<1>1. /\ Len(digits) \in Nat /\ Len(digits) > 0
      /\ \A k \in 1..Len(digits) : digits[k] \in 0..35
      /\ Represents(digits, base, v) /\ minus \in BOOLEAN
      /\ Shown = n /\ (base = 10 => Shown = value)
  BY DigitsPrinted
<1>2. z \in Seq(Nat) /\ Len(z) = 0 /\ (\A k \in 1..Len(z) : Isspace(z[k])) /\ q = Len(z) + q
  OBVIOUS
<1>3. s = (z \o SignOf(minus)) \o Chs(digits) \o <<NUL>>
  BY <1>1, <1>2, TextIs, Zenon
<1>4. q = Len(z) + (IF minus THEN 2 ELSE 1)
  BY <1>2
<1> HIDE DEF z, v, s, q
<1>5. SignAt(s, Len(z) + 1, q, minus) /\ Holds(s, q, digits)
  BY <1>1, <1>2, <1>3, <1>4, SignedText
<1>6. Strtoul(s, q, base) = [value |-> v, endptr |-> Len(s)]
  BY <1>1, <1>5, StrtoulReads
<1>7. Strtol(s, base) = [value |-> Wrap(n), endptr |-> Len(s)]
  BY <1>1, <1>5, <1>6, StrtolSigned
<1>8. Strtol(s, base) = [value |-> Wrap(Shown), endptr |-> Len(s)]
  BY <1>1, <1>7, Zenon
<1>11. ASSUME ~minus PROVE Strtoul(s, 1, base) = [value |-> Shown, endptr |-> Len(s)]
  <2>1. q = 1
    BY <1>11, Zenon DEF q
  <2>2. Shown = v
    BY <1>1, <1>11, Zenon
  <2>3. QED
    BY <1>6, <2>1, <2>2, Zenon
<1>9. ASSUME base = 10 PROVE Atoi(s) = Wrap(value)
  <2>1. Represents(digits, 10, v)
    BY <1>1, <1>9
  <2>2. Atoi(s) = Wrap(n)
    BY <1>1, <1>5, <2>1, AtoiReads
  <2>3. QED
    BY <1>1, <1>9, <2>2, Zenon
<1>10. QED
  BY <1>8, <1>9, <1>11, Zenon DEF s

\* Behind blanks, and left to find base 10, strtol does too.
LEMMA ReadBlanks ==
    ASSUME DigInv, dig_pc = "done", ~Smallest, base = 10
    PROVE  Strtol(<<32, 9>> \o Text, 0) = [value |-> Wrap(value), endptr |-> Len(Text) + 2]
<1> DEFINE z == <<32, 9>>
           q == IF minus THEN 4 ELSE 3
           v == Absolute(value)
           n == IF minus THEN -v ELSE v
           s == z \o Text
<1>1. /\ Len(digits) \in Nat /\ Len(digits) > 0
      /\ \A k \in 1..Len(digits) : digits[k] \in 0..35
      /\ Len(digits) > 1 => digits[1] # 0
      /\ Represents(digits, base, v) /\ minus \in BOOLEAN
      /\ value = n
  BY DigitsPrinted
<1>2. z \in Seq(Nat) /\ Len(z) = 2 /\ z[1] = 32 /\ z[2] = 9
  OBVIOUS
<1>3. \A k \in 1..Len(z) : Isspace(z[k])
  <2>1. 32 \in Chars /\ 9 \in Chars
    BY DEF Chars
  <2>2. (Isspace(32) <=> 32 \in 9..13 \/ 32 = 32) /\ (Isspace(9) <=> 9 \in 9..13 \/ 9 = 32)
    BY <2>1, ReadClasses
  <2>3. Isspace(32) /\ Isspace(9)
    BY <2>2
  <2>4. \A k \in 1..2 : k = 1 \/ k = 2
    OBVIOUS
  <2> HIDE DEF z
  <2>5. QED
    BY <1>2, <2>3, <2>4
<1>4. q = Len(z) + (IF minus THEN 2 ELSE 1)
  <2> HIDE DEF z
  <2>1. QED
    BY <1>2
<1> HIDE DEF z
<1>5. s = (z \o SignOf(minus)) \o Chs(digits) \o <<NUL>> /\ Len(s) = 2 + Len(Text) /\ Len(Text) \in Nat
  BY <1>1, <1>2, TextIs
<1>6. Len(s) = Len(Text) + 2
  BY <1>5
<1> HIDE DEF v, s, q
<1>7. SignAt(s, Len(z) + 1, q, minus) /\ Holds(s, q, digits)
  BY <1>1, <1>2, <1>3, <1>4, <1>5, SignedText
<1>8. Represents(digits, 10, v)
  BY <1>1
<1>9. Strtoul(s, q, 0) = [value |-> v, endptr |-> Len(s)]
  BY <1>1, <1>7, <1>8, StrtoulFinds
<1>10. Strtol(s, 0) = [value |-> Wrap(n), endptr |-> Len(s)]
  BY <1>1, <1>7, <1>9, StrtolSigned
<1>11. Strtol(s, 0) = [value |-> Wrap(value), endptr |-> Len(Text) + 2]
  BY <1>1, <1>6, <1>10, Zenon
<1>12. QED
  BY <1>11, Zenon DEF s, z

\* Behind 0X, and in base 16 or left to find it, strtol does too.
LEMMA ReadHex ==
    ASSUME DigInv, dig_pc = "done", ~Smallest, base = 16, NEW b0 \in {0, 16}
    PROVE  Strtol(<<48, 88>> \o Text, b0).value = Wrap(Shown)
<1> DEFINE z == <<48, 88>>
           v == Absolute(value)
           s == z \o Text
<1>1. /\ Len(digits) \in Nat /\ \A k \in 1..Len(digits) : digits[k] \in 0..35
      /\ Represents(digits, base, v) /\ minus \in BOOLEAN /\ (base # 10 => minus = FALSE)
      /\ Shown = (IF minus THEN -v ELSE v)
  BY DigitsPrinted
<1>2. minus = FALSE /\ Shown = v
  BY <1>1
<1>3. z \in Seq(Nat) /\ Len(z) = 2 /\ z[1] = 48 /\ z[2] = 88
  OBVIOUS
<1> HIDE DEF z
<1>4. s = (z \o SignOf(minus)) \o Chs(digits) \o <<NUL>>
  BY <1>1, <1>3, TextIs
<1>5. z \o SignOf(minus) = z
  <2>1. SignOf(minus) = <<>>
    BY <1>2, Zenon DEF SignOf
  <2>2. QED
    BY <1>3, <2>1, ConcatEmptySeq
<1>6. s = z \o Chs(digits) \o <<NUL>>
  BY <1>4, <1>5, Zenon
<1> HIDE DEF v, s
<1>7. Holds(s, Len(z) + 1, digits) /\ \A k \in 1..Len(z) : s[k] = z[k]
  <2>1. /\ Holds(z \o Chs(digits) \o <<NUL>>, Len(z) + 1, digits)
        /\ \A k \in 1..Len(z) : (z \o Chs(digits) \o <<NUL>>)[k] = z[k]
    <3>1. Len(digits) \in Nat /\ \A k \in 1..Len(digits) : digits[k] \in 0..35
      BY <1>1
    <3>2. z \in Seq(Nat)
      BY <1>3
    <3>3. QED
      BY ONLY <3>1, <3>2, HoldsBehind
  <2>2. QED
    BY <1>6, <2>1, Zenon
<1>8. Holds(s, 3, digits) /\ s[1] = 48 /\ s[2] = 88
  <2>1. Len(z) + 1 = 3 /\ 1 \in 1..Len(z) /\ 2 \in 1..Len(z)
    BY <1>3
  <2>2. QED
    BY <1>3, <1>7, <2>1
<1>9. Represents(digits, 16, v)
  BY <1>1
<1>10. Strtoul(s, 1, b0) = [value |-> v, endptr |-> Len(s)] /\ StartsAt(s, 1)
  BY <1>8, <1>9, StrtoulHex
<1>11. SignAt(s, 1, 1, minus)
  BY <1>2, <1>10, NoBlankNoSign DEF SignAt, StartsAt
<1>12. Strtol(s, b0) = [value |-> Wrap(IF minus THEN -v ELSE v), endptr |-> Len(s)]
  BY <1>1, <1>10, <1>11, StrtolSigned
<1>13. Strtol(s, b0).value = Wrap(Shown)
  BY <1>1, <1>2, <1>12
<1>14. QED
  BY <1>13 DEF s, z

LEMMA DigInvRight == DigInv => DigitsRight
<1> SUFFICES ASSUME DigInv, dig_pc = "done", ~Smallest
             PROVE  /\ \A k \in 1..Len(digits) : digits[k] \in 0..(base - 1)
                    /\ Len(digits) > 0
                    /\ Meaning = Shown
                    /\ Strtol(Text, base) = [value |-> Wrap(Shown), endptr |-> Len(Text)]
                    /\ ~minus => Strtoul(Text, 1, base) = [value |-> Shown, endptr |-> Len(Text)]
                    /\ base = 10 => /\ Atoi(Text) = Wrap(value)
                                    /\ Strtol(<<32, 9>> \o Text, 0)
                                         = [value |-> Wrap(value), endptr |-> Len(Text) + 2]
                    /\ base = 16 => \A b0 \in {0, 16} : Strtol(<<48, 88>> \o Text, b0).value = Wrap(Shown)
  BY Zenon DEF DigitsRight, Smallest
<1>1. Len(digits) > 0 /\ \A k \in 1..Len(digits) : digits[k] \in 0..(base - 1)
  BY DigitsPrinted
<1>2. Meaning = Shown
  <2>1. PICK g : Horner(g, digits, base, Absolute(value))
    BY DigitsInOrder
  <2>2. Len(digits) \in Nat /\ Shown = IF minus THEN -Absolute(value) ELSE Absolute(value)
    BY DigitsPrinted
  <2>3. Meaning = IF minus THEN -Absolute(value) ELSE Absolute(value)
    BY <2>1, <2>2, MeaningRight
  <2>4. QED
    BY <2>2, <2>3, Zenon
<1>3. /\ Strtol(Text, base) = [value |-> Wrap(Shown), endptr |-> Len(Text)]
      /\ ~minus => Strtoul(Text, 1, base) = [value |-> Shown, endptr |-> Len(Text)]
      /\ base = 10 => Atoi(Text) = Wrap(value)
  BY ReadBack, Zenon
<1>4. base = 10 => Strtol(<<32, 9>> \o Text, 0) = [value |-> Wrap(value), endptr |-> Len(Text) + 2]
  BY ReadBlanks, Zenon
<1>5. base = 16 => \A b0 \in {0, 16} : Strtol(<<48, 88>> \o Text, b0).value = Wrap(Shown)
  BY ReadHex, Zenon
<1>6. QED
  BY <1>1, <1>2, <1>3, <1>4, <1>5, Zenon

(***************************************************************************)
(* In every base and for an int or unsigned int of every size, the loops   *)
(* of itoa and its kin print the digits of the number in order, each of    *)
(* them in the table.  The text stands for the number, except that in      *)
(* other bases than 10 itoa and ltoa drop the sign of a negative one       *)
(* (Shown); atoi, strtol and strtoul read the text back to its end, behind *)
(* blanks and behind "0x" too, large numbers as the int of the same bits.  *)
(* Nothing is said of the smallest int in console_vprintf, which cannot    *)
(* negate it and prints it wrong.                                          *)
(***************************************************************************)
THEOREM DigitsAreRight == Spec => []DigitsRight
<1>1. Init => DigInv
  BY DigInitInv
<1>2. DigInv /\ [Next]_vars => DigInv'
  BY DigStep DEF Next, vars
<1>3. DigInv => DigitsRight
  BY DigInvRight
<1>4. QED
  BY <1>1, <1>2, <1>3, PTL DEF Spec

-----------------------------------------------------------------------------
(***************************************************************************)
(* Numbers with Precision bits of mantissa: the powers of two, the         *)
(* distance between the numbers, and what rounding to them can do.         *)
(***************************************************************************)
LEMMA TopIs == Precision \in Nat /\ Precision >= 2 /\ Scales \in Nat \ {0} /\ Top \in Nat /\ Top = Precision + Scales
  BY MathsAssumption DEF Top

LEMMA Powers ==
    /\ TwoTo[0] = 1
    /\ \A n \in 0..Top : TwoTo[n] \in Nat \ {0}
    /\ \A n \in 1..Top : TwoTo[n] = 2 * TwoTo[n - 1]
<1> DEFINE twice == [x \in Nat |-> 2 * x]
           F == [n \in (0 + 1)..Top |-> twice]
<1>1. Top \in Nat
  BY TopIs
<1>2. F \in [(0 + 1)..Top -> [Nat -> Nat]]
  OBVIOUS
<1>3. PICK f \in [0..Top -> Nat] : IteratesFrom(f, 1, F, 0, Top)
  <2>1. 0 \in Int /\ Top \in Int /\ 0 =< Top /\ 1 \in Nat
    BY <1>1
  <2> HIDE DEF F
  <2>2. QED
    BY <1>2, <2>1, IntervalRecursion
<1>4. f[0] = 1 /\ \A n \in 1..Top : f[n] = 2 * f[n - 1]
  <2>1. ASSUME NEW n \in 1..Top PROVE f[n] = 2 * f[n - 1]
    <3>1. n \in (0 + 1)..Top /\ n - 1 \in 0..Top
      BY <1>1
    <3>2. f[n] = F[n][f[n - 1]] /\ f[n - 1] \in Nat
      BY <1>3, <3>1 DEF IteratesFrom
    <3>3. QED
      BY <3>1, <3>2
  <2>2. QED
    BY <1>3, <2>1 DEF IteratesFrom
<1> HIDE DEF F, twice
<1>5. f = [n \in 0..Top |-> IF n = 0 THEN 1 ELSE 2 * f[n - 1]]
  <2>1. f = [n \in 0..Top |-> f[n]]
    BY <1>3
  <2>2. \A n \in 0..Top : f[n] = IF n = 0 THEN 1 ELSE 2 * f[n - 1]
    BY <1>1, <1>4
  <2>3. QED
    BY <2>1, <2>2
<1>6. TwoTo = [n \in 0..Top |-> IF n = 0 THEN 1 ELSE 2 * TwoTo[n - 1]]
  <2> DEFINE P(g) == g = [n \in 0..Top |-> IF n = 0 THEN 1 ELSE 2 * g[n - 1]]
  <2>1. P(f)
    BY <1>5
  <2>2. TwoTo = CHOOSE g : P(g)
    BY DEF TwoTo, Top
  <2> HIDE DEF P
  <2>3. P(TwoTo)
    BY <2>1, <2>2, Zenon
  <2>4. QED
    BY <2>3 DEF P
<1>7. TwoTo[0] = 1 /\ \A n \in 1..Top : TwoTo[n] = 2 * TwoTo[n - 1]
  <2>1. \A n \in 0..Top : TwoTo[n] = IF n = 0 THEN 1 ELSE 2 * TwoTo[n - 1]
    BY <1>6
  <2>2. 0 \in 0..Top /\ \A n \in 1..Top : n \in 0..Top /\ n # 0
    BY <1>1
  <2>3. QED
    BY <2>1, <2>2
<1> DEFINE S == {n \in 0..Top : TwoTo[n] \in Nat \ {0}}
<1>8. 0 \in S
  BY <1>1, <1>7
<1>9. \A n \in 0..(Top - 1) : n \in S => n + 1 \in S
  <2>1. SUFFICES ASSUME NEW n \in 0..(Top - 1), n \in S PROVE n + 1 \in S
    OBVIOUS
  <2>2. n + 1 \in 1..Top /\ (n + 1) - 1 = n /\ n + 1 \in 0..Top
    BY <1>1
  <2>3. QED
    BY <1>7, <2>1, <2>2
<1>10. \A n \in 0..Top : n \in S
  <2> HIDE DEF S
  <2>1. 0 \in Int /\ Top \in Int
    BY <1>1
  <2>2. QED
    BY <1>8, <1>9, <2>1, IntervalInduction
<1>11. QED
  BY <1>7, <1>10 DEF S

LEMMA PowersMultiply ==
    ASSUME NEW i \in 0..Top, NEW j \in 0..(Top - i)
    PROVE  TwoTo[i + j] = TwoTo[i] * TwoTo[j]
<1>1. Top \in Nat
  BY TopIs
<1> DEFINE S == {n \in 0..(Top - i) : TwoTo[i + n] = TwoTo[i] * TwoTo[n]}
<1>2. 0 \in S
  BY <1>1, Powers
<1>3. \A n \in 0..((Top - i) - 1) : n \in S => n + 1 \in S
  <2>1. SUFFICES ASSUME NEW n \in 0..((Top - i) - 1), n \in S PROVE n + 1 \in S
    OBVIOUS
  <2>2. /\ n + 1 \in 1..Top /\ (n + 1) - 1 = n /\ n \in 0..Top
        /\ i + (n + 1) \in 1..Top /\ (i + (n + 1)) - 1 = i + n /\ i + n \in 0..Top
        /\ n + 1 \in 0..(Top - i)
    BY <1>1
  <2>3. TwoTo[i + (n + 1)] = 2 * TwoTo[i + n] /\ TwoTo[n + 1] = 2 * TwoTo[n]
    BY <2>2, Powers
  <2> DEFINE x == TwoTo[i]
             y == TwoTo[n]
  <2>4. x \in Nat /\ y \in Nat
    BY <2>2, Powers
  <2>5. TwoTo[i + n] = x * y
    BY <2>1
  <2> HIDE DEF x, y
  <2>6. 2 * (x * y) = x * (2 * y)
    BY <2>4
  <2>7. TwoTo[i + (n + 1)] = TwoTo[i] * TwoTo[n + 1]
    BY <2>3, <2>5, <2>6 DEF x, y
  <2>8. QED
    BY <2>2, <2>7
<1>4. \A n \in 0..(Top - i) : n \in S
  <2> HIDE DEF S
  <2>1. 0 \in Int /\ Top - i \in Int
    BY <1>1
  <2>2. QED
    BY <1>2, <1>3, <2>1, IntervalInduction
<1>5. QED
  BY <1>4 DEF S

\* A power of two is a multiple of the smaller ones.
LEMMA PowersDivide ==
    ASSUME NEW i \in 0..Top, NEW j \in i..Top
    PROVE  \E c \in Nat \ {0} : TwoTo[j] = c * TwoTo[i] /\ (i < j => \E d \in Nat \ {0} : c = 2 * d)
<1>1. Top \in Nat /\ j - i \in 0..(Top - i) /\ i + (j - i) = j /\ j - i \in 0..Top
  BY TopIs
<1>2. TwoTo[j] = TwoTo[i] * TwoTo[j - i]
  <2>1. TwoTo[i + (j - i)] = TwoTo[i] * TwoTo[j - i]
    BY <1>1, PowersMultiply
  <2>2. QED
    BY <1>1, <2>1
<1>3. TwoTo[i] \in Nat /\ TwoTo[j - i] \in Nat \ {0}
  BY <1>1, Powers
<1>4. TwoTo[j] = TwoTo[j - i] * TwoTo[i]
  BY <1>2, <1>3
<1>5. ASSUME i < j PROVE \E d \in Nat \ {0} : TwoTo[j - i] = 2 * d
  <2>1. j - i \in 1..Top /\ (j - i) - 1 \in 0..Top
    BY <1>1, <1>5
  <2>2. TwoTo[j - i] = 2 * TwoTo[(j - i) - 1] /\ TwoTo[(j - i) - 1] \in Nat \ {0}
    BY <2>1, Powers
  <2>3. QED
    BY <2>2
<1>6. QED
  BY <1>3, <1>4, <1>5

LEMMA PowersGrow ==
    ASSUME NEW i \in 0..Top, NEW j \in i..Top
    PROVE  TwoTo[i] =< TwoTo[j] /\ (i < j => 2 * TwoTo[i] =< TwoTo[j])
<1>1. PICK c \in Nat \ {0} : TwoTo[j] = c * TwoTo[i] /\ (i < j => \E d \in Nat \ {0} : c = 2 * d)
  BY PowersDivide
<1> DEFINE x == TwoTo[i]
<1>2. x \in Nat
  BY Powers
<1>3. TwoTo[j] = c * x
  BY <1>1
<1> HIDE DEF x
<1>4. \A n \in Nat \ {0} : n * x >= x
  <2>1. SUFFICES ASSUME NEW n \in Nat \ {0} PROVE n * x >= x
    OBVIOUS
  <2>2. (n - 1) * x \in Nat /\ n * x = (n - 1) * x + x
    BY <1>2
  <2>3. QED
    BY <1>2, <2>2
<1>5. c * x >= x
  BY <1>4
<1>6. ASSUME i < j PROVE 2 * x =< c * x
  <2>1. PICK d \in Nat \ {0} : c = 2 * d
    BY <1>1, <1>6
  <2>2. d * x >= x /\ c * x = 2 * (d * x) /\ d * x \in Nat
    BY <1>2, <1>4, <2>1
  <2>3. QED
    BY <1>2, <2>2
<1>7. c * x \in Nat
  BY <1>2
<1>8. QED
  BY <1>2, <1>3, <1>5, <1>6, <1>7 DEF x

LEMMA ScalesFit ==
    ASSUME NEW j \in 0..Scales
    PROVE  /\ j \in 0..Top /\ Precision + j \in 0..Top /\ TwoTo[j] \in Nat \ {0}
           /\ j # 0 => /\ Precision + j - 1 \in 0..Top
                       /\ TwoTo[Precision + j - 1] = TwoTo[Precision - 1] * TwoTo[j]
           /\ TwoTo[Precision + j] = TwoTo[Precision] * TwoTo[j]
           /\ Precision - 1 \in 0..Top /\ Precision \in 0..Top
<1>1. Precision \in Nat /\ Precision >= 2 /\ Scales \in Nat \ {0} /\ Top \in Nat /\ Top = Precision + Scales
  BY TopIs
<1>2. /\ j \in 0..Top /\ Precision + j \in 0..Top /\ Precision - 1 \in 0..Top /\ Precision \in 0..Top
      /\ j \in 0..(Top - Precision) /\ j \in 0..(Top - (Precision - 1))
      /\ (Precision - 1) + j = Precision + j - 1
      /\ j # 0 => Precision + j - 1 \in 0..Top
  BY <1>1
<1>3. TwoTo[j] \in Nat \ {0}
  BY <1>2, Powers
<1>4. TwoTo[Precision + j] = TwoTo[Precision] * TwoTo[j]
  BY <1>2, PowersMultiply
<1>5. TwoTo[(Precision - 1) + j] = TwoTo[Precision - 1] * TwoTo[j]
  BY <1>2, PowersMultiply
<1>6. QED
  BY <1>2, <1>3, <1>4, <1>5

\* The larger number has the larger spacing.
LEMMA ScalesGrow ==
    ASSUME NEW k \in Nat, NEW m \in Nat, k =< m, NEW i, NEW j, ScaleIs(k, i), ScaleIs(m, j)
    PROVE  i =< j
<1>1. /\ i \in 0..Scales /\ j \in 0..Scales /\ m < TwoTo[Precision + j]
      /\ i = 0 \/ k >= TwoTo[Precision + i - 1]
  BY DEF ScaleIs
<1>2. ASSUME j < i PROVE FALSE
  <2>1. i # 0 /\ Precision + j \in 0..Top /\ Precision + i - 1 \in (Precision + j)..Top
    BY <1>1, <1>2, TopIs
  <2>2. TwoTo[Precision + j] =< TwoTo[Precision + i - 1]
    BY <2>1, PowersGrow
  <2>3. TwoTo[Precision + j] \in Nat /\ TwoTo[Precision + i - 1] \in Nat
    BY <1>1, <2>1, ScalesFit, Powers
  <2>4. QED
    BY <1>1, <2>1, <2>2, <2>3
<1>3. QED
  BY <1>1, <1>2

LEMMA ScaleExists ==
    ASSUME NEW k \in Nat, k < TwoTo[Top]
    PROVE  \E j : ScaleIs(k, j)
<1> DEFINE S == {j \in 0..Scales : k < TwoTo[Precision + j]}
<1>1. Precision \in Nat /\ Scales \in Nat /\ Top = Precision + Scales
  BY TopIs
<1>2. S \in SUBSET Nat /\ Scales \in S
  BY <1>1
<1>3. PICK j \in S : \A i \in S : j =< i
  <2> HIDE DEF S
  <2>1. S # {}
    BY <1>2
  <2>2. QED
    BY <1>2, <2>1, LeastExists
<1>4. ASSUME j # 0 PROVE k >= TwoTo[Precision + j - 1]
  <2>1. j - 1 \in 0..Scales /\ ~(j =< j - 1) /\ Precision + (j - 1) = Precision + j - 1
    BY <1>1, <1>4
  <2>2. j - 1 \notin S
    BY <1>3, <2>1
  <2>3. ~(k < TwoTo[Precision + j - 1])
    BY <2>1, <2>2
  <2>4. TwoTo[Precision + j - 1] \in Nat
    BY <1>4, ScalesFit, Powers
  <2>5. QED
    BY <2>3, <2>4
<1>5. ScaleIs(k, j)
  BY <1>4 DEF ScaleIs
<1>6. QED
  BY <1>5

LEMMA SpacingIs ==
    ASSUME NEW k \in Nat, NEW j, ScaleIs(k, j)
    PROVE  Spacing(k) = TwoTo[j]
<1> DEFINE Suits(i) == k < TwoTo[Precision + i] /\ (i = 0 \/ k >= TwoTo[Precision + i - 1])
           s == CHOOSE i \in 0..Scales : Suits(i)
<1>1. j \in 0..Scales /\ Suits(j)
  BY DEF ScaleIs
<1>2. Spacing(k) = TwoTo[s]
  BY DEF Spacing
<1>3. s \in 0..Scales /\ Suits(s)
  <2> HIDE DEF Suits
  <2>1. QED
    BY <1>1
<1> HIDE DEF s
<1>4. ScaleIs(k, s)
  BY <1>3 DEF ScaleIs
<1>5. k =< k
  OBVIOUS
<1>6. s =< j /\ j =< s
  BY <1>4, <1>5, ScalesGrow
<1>7. s = j
  BY <1>1, <1>3, <1>6
<1>8. QED
  BY <1>2, <1>7

LEMMA RoundedIs ==
    ASSUME NEW k \in Nat, NEW j, ScaleIs(k, j), NEW q \in Nat, NEW r \in 0..(TwoTo[j] - 1),
           k = q * TwoTo[j] + r
    PROVE  Rounded(k, 1) = Steps(q, TwoTo[j], r) * TwoTo[j]
<1> DEFINE s == TwoTo[j]
<1>1. j \in 0..Scales
  BY DEF ScaleIs
<1>2. s \in Nat \ {0}
  BY <1>1, ScalesFit
<1>3. Magnitude(k) = k /\ k \div 1 = k
  BY DEF Magnitude
<1>4. Spacing(k) = s
  BY SpacingIs
<1>5. k \div s = q /\ k % s = r
  <2> DEFINE c == k \div s
             d == k % s
  <2> HIDE DEF s
  <2>1. c \in Nat /\ d \in 0..(s - 1) /\ k = s * c + d
    BY <1>2, DivRest
  <2> HIDE DEF c, d
  <2>2. s * q = q * s
    BY <1>2
  <2>3. r \in 0..(s - 1) /\ k = s * q + r
    BY <2>2 DEF s
  <2>4. c = q /\ d = r
    BY <1>2, <2>1, <2>3, SameQuotient
  <2>5. QED
    BY <2>4 DEF c, d
<1> DEFINE R(m, t) ==
             LET qq == m \div (1 * t)
                 rr == m % (1 * t)
                 up == 2 * rr > 1 * t \/ (2 * rr = 1 * t /\ qq % 2 = 1)
             IN  (IF up THEN qq + 1 ELSE qq) * t
<1>6. Rounded(k, 1) = IF k < 0 THEN -R(Magnitude(k), Spacing(Magnitude(k) \div 1))
                                ELSE R(Magnitude(k), Spacing(Magnitude(k) \div 1))
  BY DEF Rounded
<1>7. 1 * s = s
  BY <1>2
<1>8. R(k, s) = Steps(q, s, r) * s
  <2> HIDE DEF s
  <2>1. QED
    BY <1>5, <1>7, Zenon DEF Steps
<1> HIDE DEF s, R
<1>9. ~(k < 0)
  OBVIOUS
<1>10. QED
  BY <1>3, <1>4, <1>6, <1>8, <1>9 DEF s

LEMMA RoundedNegative ==
    ASSUME NEW k \in Nat, k > 0
    PROVE  Rounded(-k, 1) = -Rounded(k, 1)
<1>1. Magnitude(-k) = k /\ Magnitude(k) = k /\ -k < 0 /\ ~(k < 0)
  BY DEF Magnitude
<1> DEFINE R(m, t) ==
             LET qq == m \div (1 * t)
                 rr == m % (1 * t)
                 up == 2 * rr > 1 * t \/ (2 * rr = 1 * t /\ qq % 2 = 1)
             IN  (IF up THEN qq + 1 ELSE qq) * t
           D(m) == R(Magnitude(m), Spacing(Magnitude(m) \div 1))
<1>2. Rounded(k, 1) = (IF k < 0 THEN -D(k) ELSE D(k)) /\ Rounded(-k, 1) = (IF -k < 0 THEN -D(-k) ELSE D(-k))
  BY DEF Rounded
<1>3. D(k) = D(-k)
  BY <1>1
<1> HIDE DEF D
<1>4. QED
  BY <1>1, <1>2, <1>3

\* A division by the spacing, and what rounding makes of it.
LEMMA RoundedSteps ==
    ASSUME NEW k \in Nat, k < TwoTo[Top]
    PROVE  \E j, q \in Nat : \E r \in 0..(TwoTo[j] - 1) :
              /\ j \in 0..Scales /\ ScaleIs(k, j) /\ TwoTo[j] \in Nat \ {0}
              /\ k = q * TwoTo[j] + r
              /\ Rounded(k, 1) = Steps(q, TwoTo[j], r) * TwoTo[j]
<1>1. PICK j : ScaleIs(k, j)
  BY ScaleExists
<1>2. j \in 0..Scales /\ TwoTo[j] \in Nat \ {0}
  <2>1. j \in 0..Scales
    BY <1>1 DEF ScaleIs
  <2>2. QED
    BY <2>1, ScalesFit
<1> DEFINE s == TwoTo[j]
           q == k \div s
           r == k % s
<1>3. q \in Nat /\ r \in 0..(s - 1) /\ k = s * q + r
  BY <1>2, DivRest
<1> HIDE DEF q, r, s
<1>4. s * q = q * s
  BY <1>2, <1>3 DEF s
<1>5. k = q * TwoTo[j] + r /\ r \in 0..(TwoTo[j] - 1)
  BY <1>3, <1>4 DEF s
<1>6. Rounded(k, 1) = Steps(q, TwoTo[j], r) * TwoTo[j]
  BY <1>1, <1>3, <1>5, RoundedIs
<1>7. j \in Nat
  BY <1>2
<1>8. QED
  BY <1>1, <1>2, <1>3, <1>5, <1>6, <1>7

\* Rounding is off by half a spacing at most and crosses no multiple of it.
LEMMA RoundedBound ==
    ASSUME NEW k \in Nat, k < TwoTo[Top], NEW j, ScaleIs(k, j)
    PROVE  /\ Rounded(k, 1) \in Nat
           /\ 2 * Rounded(k, 1) =< 2 * k + TwoTo[j]
           /\ \A m \in Nat : /\ m * TwoTo[j] =< k => m * TwoTo[j] =< Rounded(k, 1)
                             /\ m * TwoTo[j] >= k => m * TwoTo[j] >= Rounded(k, 1)
<1>1. PICK i, q \in Nat : \E r \in 0..(TwoTo[i] - 1) :
              /\ i \in 0..Scales /\ ScaleIs(k, i) /\ TwoTo[i] \in Nat \ {0}
              /\ k = q * TwoTo[i] + r
              /\ Rounded(k, 1) = Steps(q, TwoTo[i], r) * TwoTo[i]
  BY RoundedSteps
<1>2. i = j
  <2>1. k =< k
    OBVIOUS
  <2>2. i =< j /\ j =< i
    BY <1>1, <2>1, ScalesGrow
  <2>3. j \in 0..Scales
    BY DEF ScaleIs
  <2>4. QED
    BY <1>1, <2>2, <2>3
<1> DEFINE s == TwoTo[j]
<1>3. PICK r \in 0..(s - 1) : k = q * s + r /\ Rounded(k, 1) = Steps(q, s, r) * s
  BY <1>1, <1>2
<1>4. s \in Nat \ {0}
  BY <1>1, <1>2
<1> HIDE DEF s
<1> DEFINE p == q * s
<1>5. p \in Nat /\ (q + 1) * s = p + s
  BY <1>4
<1>6. \A m \in Nat : /\ m =< q => m * s =< p
                     /\ m >= q + 1 => m * s >= p + s
  <2>1. SUFFICES ASSUME NEW m \in Nat
                 PROVE  (m =< q => m * s =< p) /\ (m >= q + 1 => m * s >= p + s)
    OBVIOUS
  <2>2. ASSUME m =< q PROVE m * s =< p
    <3>1. q - m \in Nat /\ q = m + (q - m)
      BY <2>2
    <3>2. (q - m) * s \in Nat /\ m * s \in Nat
      BY <1>4, <3>1, ProductIsNatural
    <3>3. p = m * s + (q - m) * s
      BY <1>4
    <3>4. QED
      BY <3>2, <3>3
  <2>3. ASSUME m >= q + 1 PROVE m * s >= p + s
    <3>1. m - (q + 1) \in Nat
      BY <2>3
    <3>2. (m - (q + 1)) * s \in Nat /\ m * s \in Nat
      BY <1>4, <3>1, ProductIsNatural
    <3>3. m * s = (p + s) + (m - (q + 1)) * s
      BY <1>4
    <3>4. QED
      BY <1>4, <1>5, <3>2, <3>3
  <2>4. QED
    BY <2>2, <2>3
<1>7. k = p + r
  BY <1>3
<1>8. \/ Rounded(k, 1) = p /\ 2 * r =< s
      \/ Rounded(k, 1) = p + s /\ 2 * r >= s
  <2>1. CASE 2 * r > s \/ (2 * r = s /\ q % 2 = 1)
    BY <1>3, <1>4, <1>5, <2>1 DEF Steps
  <2>2. CASE ~(2 * r > s \/ (2 * r = s /\ q % 2 = 1))
    BY <1>3, <1>4, <1>5, <2>2 DEF Steps
  <2>3. QED
    BY <2>1, <2>2
<1>9. \A m \in Nat : m * s \in Nat
  BY <1>4, ProductIsNatural
<1> HIDE DEF p
<1>10. Rounded(k, 1) \in Nat /\ 2 * Rounded(k, 1) =< 2 * k + s
  BY <1>4, <1>5, <1>7, <1>8
<1>11. ASSUME NEW m \in Nat
       PROVE  /\ m * s =< k => m * s =< Rounded(k, 1)
              /\ m * s >= k => m * s >= Rounded(k, 1)
  <2>1. CASE m =< q
    <3>1. m * s =< p
      BY <1>6, <2>1
    <3>2. QED
      BY <1>4, <1>5, <1>7, <1>8, <1>9, <3>1
  <2>2. CASE m >= q + 1
    <3>1. m * s >= p + s
      BY <1>6, <2>2
    <3>2. QED
      BY <1>4, <1>5, <1>7, <1>8, <1>9, <3>1
  <2>3. QED
    BY <2>1, <2>2
<1>12. QED
  BY <1>10, <1>11 DEF s

\* What the test Rounded(k, 1) = k says.
LEMMA RepresentableIs ==
    ASSUME NEW k \in Nat, k < TwoTo[Top]
    PROVE  Rounded(k, 1) = k <=> \E j, q \in Nat : Representable(k, j, q)
<1>1. PICK j, q \in Nat : \E r \in 0..(TwoTo[j] - 1) :
              /\ j \in 0..Scales /\ ScaleIs(k, j) /\ TwoTo[j] \in Nat \ {0}
              /\ k = q * TwoTo[j] + r
              /\ Rounded(k, 1) = Steps(q, TwoTo[j], r) * TwoTo[j]
  BY RoundedSteps
<1> DEFINE s == TwoTo[j]
<1>2. PICK r \in 0..(s - 1) : k = q * s + r /\ Rounded(k, 1) = Steps(q, s, r) * s
  BY <1>1
<1>3. s \in Nat \ {0} /\ j \in Nat
  BY <1>1
<1>4. ASSUME Rounded(k, 1) = k PROVE \E i, m \in Nat : Representable(k, i, m)
  <2> HIDE DEF s
  <2>1. q * s \in Nat /\ (q + 1) * s = q * s + s
    BY <1>3
  <2>2. Steps(q, s, r) \in {q, q + 1}
    BY <1>3, StepsBound
  <2>3. k = q * s \/ k = q * s + s
    BY <1>2, <1>4, <2>1, <2>2
  <2>4. k = q * s
    BY <1>2, <1>3, <2>1, <2>3
  <2>5. Representable(k, j, q)
    BY <1>1, <2>4 DEF Representable, s
  <2>6. QED
    BY <1>3, <2>5
<1>5. ASSUME NEW i \in Nat, NEW m \in Nat, Representable(k, i, m) PROVE Rounded(k, 1) = k
  <2>1. ScaleIs(k, i) /\ k = m * TwoTo[i]
    BY <1>5 DEF Representable
  <2>2. k =< k /\ k >= k
    OBVIOUS
  <2>3. k =< Rounded(k, 1) /\ k >= Rounded(k, 1) /\ Rounded(k, 1) \in Nat
    BY <2>1, <2>2, RoundedBound
  <2>4. QED
    BY <2>3
<1>6. QED
  BY <1>4, <1>5

LEMMA UnitScaleIs ==
    /\ UnitScale \in Precision..(Top - 1) /\ Unit = TwoTo[UnitScale]
    /\ {UnitScale, UnitScale - 1, UnitScale + 1, UnitScale - Precision} \subseteq 0..Top
<1> DEFINE P(u) == Unit = TwoTo[u]
<1>1. \E u \in Precision..(Precision + Scales - 1) : P(u)
  BY MathsAssumption
<1>2. UnitScale = CHOOSE u \in Precision..(Precision + Scales - 1) : P(u)
  BY DEF UnitScale
<1>3. UnitScale \in Precision..(Precision + Scales - 1) /\ P(UnitScale)
  <2> HIDE DEF P
  <2>1. QED
    BY <1>1, <1>2
<1>4. QED
  BY <1>3, TopIs

LEMMA UnitIs ==
    /\ Unit \in Nat \ {0} /\ Ulp \in Nat \ {0} /\ Half \in Nat \ {0}
    /\ 2 * Half = Unit /\ Unit \div 2 = Half /\ 2 * Ulp =< Half
    /\ Unit = TwoTo[Precision] * Ulp /\ AlmostOne = Unit - Ulp
    /\ Unit =< TwoTo[Top - 1] /\ 2 * TwoTo[Top - 1] = TwoTo[Top] /\ TwoTo[Top - 1] \in Nat
<1> DEFINE u == UnitScale
<1>1. /\ Precision \in Nat /\ Precision >= 2 /\ Top \in Nat /\ u \in Precision..(Top - 1)
      /\ Unit = TwoTo[u] /\ {u, u - 1, u + 1, u - Precision} \subseteq 0..Top
  BY TopIs, UnitScaleIs
<1> HIDE DEF u
<1>2. Unit \in Nat \ {0} /\ TwoTo[u - 1] \in Nat \ {0} /\ TwoTo[u - Precision] \in Nat \ {0}
  BY <1>1, Powers
<1>3. Unit = 2 * TwoTo[u - 1]
  <2>1. u \in 1..Top
    BY <1>1
  <2>2. QED
    BY <1>1, <2>1, Powers
<1>4. Unit \div 2 = TwoTo[u - 1]
  BY <1>2, <1>3
<1>5. 2 * TwoTo[u - Precision] =< TwoTo[u - 1]
  <2>1. u - 1 \in (u - Precision)..Top /\ u - Precision < u - 1 /\ u - Precision \in 0..Top
    BY <1>1
  <2>2. QED
    BY <2>1, PowersGrow
<1>6. Unit = TwoTo[Precision] * TwoTo[u - Precision]
  <2>1. Precision \in 0..Top /\ u - Precision \in 0..(Top - Precision) /\ Precision + (u - Precision) = u
    BY <1>1
  <2>2. TwoTo[Precision + (u - Precision)] = TwoTo[Precision] * TwoTo[u - Precision]
    BY <2>1, PowersMultiply
  <2>3. QED
    BY <1>1, <2>1, <2>2
<1>7. Unit \div TwoTo[Precision] = TwoTo[u - Precision]
  <2> DEFINE t == TwoTo[Precision]
             e == TwoTo[u - Precision]
  <2>1. t \in Nat \ {0} /\ e \in Nat /\ Unit = t * e /\ e \in Int
    <3>1. Precision \in 0..Top
      BY <1>1
    <3>2. QED
      BY <1>2, <1>6, <3>1, Powers
  <2> HIDE DEF t, e
  <2>2. e * t = Unit
    BY <2>1
  <2>3. Unit \in Int /\ e * t =< Unit /\ Unit < e * t + t
    BY <1>2, <2>1, <2>2
  <2>4. Unit \div t = e
    BY <2>1, <2>3, QuotientIs
  <2>5. QED
    BY <2>4 DEF t, e
<1>8. AlmostOne = Unit - TwoTo[u - Precision]
  BY <1>7 DEF AlmostOne
<1>9. /\ Unit =< TwoTo[Top - 1] /\ 2 * TwoTo[Top - 1] = TwoTo[Top] /\ TwoTo[Top - 1] \in Nat
  <2>1. Top - 1 \in u..Top /\ u \in 0..Top /\ Top \in 1..Top /\ Top - 1 \in 0..Top
    BY <1>1
  <2>2. Unit =< TwoTo[Top - 1]
    BY <1>1, <2>1, PowersGrow
  <2>3. QED
    BY <2>1, <2>2, Powers
<1>10. QED
  BY <1>2, <1>3, <1>4, <1>5, <1>6, <1>8, <1>9 DEF u, Ulp, Half

\* Where the spacing is not more than 1.0, rounding crosses no integer.
LEMMA KeepsUnits ==
    ASSUME NEW k \in Nat, k < TwoTo[Top], NEW j, ScaleIs(k, j), j =< UnitScale, NEW c \in Nat
    PROVE  /\ c * Unit \in Nat
           /\ c * Unit =< k => c * Unit =< Rounded(k, 1)
           /\ c * Unit >= k => c * Unit >= Rounded(k, 1)
<1>1. j \in 0..Top /\ UnitScale \in j..Top /\ Unit = TwoTo[UnitScale] /\ TwoTo[j] \in Nat
  <2>1. j \in 0..Scales
    BY DEF ScaleIs
  <2>2. QED
    BY <2>1, TopIs, UnitScaleIs, ScalesFit
<1>2. PICK d \in Nat \ {0} : Unit = d * TwoTo[j]
  BY <1>1, PowersDivide
<1> DEFINE s == TwoTo[j]
<1>3. Unit = d * s /\ s \in Nat
  BY <1>1, <1>2
<1>4. c * d \in Nat
  BY <1>2
<1>5. \A m \in Nat : /\ m * s =< k => m * s =< Rounded(k, 1)
                     /\ m * s >= k => m * s >= Rounded(k, 1)
  BY RoundedBound
<1> HIDE DEF s
<1>6. c * Unit = (c * d) * s /\ (c * d) * s \in Nat
  BY <1>2, <1>3, <1>4
<1>7. QED
  BY <1>4, <1>5, <1>6

LEMMA CastIs ==
    ASSUME NEW x \in Nat, NEW c \in Nat, c * Unit =< x, x < c * Unit + Unit
    PROVE  /\ Cast(x) = c * Unit /\ x \div Unit = c
           /\ Cast(-x) = -(c * Unit)
<1>1. Unit \in Nat \ {0} /\ x \in Int /\ c \in Int /\ -(-x) = x
  BY UnitIs
<1>2. x \div Unit = c
  BY <1>1, QuotientIs
<1>3. Unit * c = c * Unit /\ c * Unit \in Nat
  BY <1>1
<1>4. Cast(x) = c * Unit
  BY <1>2, <1>3 DEF Cast
<1>5. CASE x = 0
  <2> DEFINE p == c * Unit
  <2>0. p \in Nat /\ p =< x
    BY <1>3
  <2> HIDE DEF p
  <2>1. p = 0
    BY <1>5, <2>0
  <2>2. -x = x
    <3>1. x \in Int /\ x >= 0 /\ x =< 0
      BY <1>5
    <3>2. QED
      BY <3>1, MinusZero
  <2>3. -p = p
    <3>1. p \in Int /\ p >= 0 /\ p =< 0
      BY <2>0, <2>1
    <3>2. QED
      BY <3>1, MinusZero
  <2>4. QED
    <3>1. Cast(x) = p
      BY <1>4 DEF p
    <3>2. Cast(-x) = -p
      BY <2>1, <2>2, <2>3, <3>1
    <3>3. QED
      BY <1>2, <3>1, <3>2 DEF p
<1>6. CASE x # 0
  <2>1. -x < 0 /\ (-(-x)) \div Unit = c
    BY <1>2, <1>6, <1>1
  <2>2. Cast(-x) = -(Unit * c)
    BY <2>1 DEF Cast
  <2>3. QED
    BY <1>2, <1>3, <1>4, <2>2
<1>7. QED
  BY <1>5, <1>6

\* The numbers below 1.0: all are 1.0 - Ulp at most.
LEMMA ScaleBelowOne ==
    ASSUME NEW k \in Nat, k < Unit, k >= Half
    PROVE  ScaleIs(k, UnitScale - Precision)
<1> DEFINE i == UnitScale - Precision
<1>1. i \in 0..Scales /\ Precision + i = UnitScale /\ Precision + i - 1 = UnitScale - 1
  BY UnitScaleIs, TopIs
<1>2. k < TwoTo[Precision + i] /\ k >= TwoTo[Precision + i - 1]
  BY <1>1, UnitScaleIs DEF Half
<1>3. QED
  BY <1>1, <1>2 DEF ScaleIs

LEMMA BelowOne ==
    ASSUME NEW a \in Nat, a < Unit, NEW j, NEW q, Representable(a, j, q)
    PROVE  a + Ulp =< Unit /\ j =< UnitScale - Precision
<1> DEFINE i == UnitScale - Precision
<1>1. i \in 0..Scales /\ Precision + i = UnitScale /\ UnitScale \in Nat /\ Precision \in Nat
  BY UnitScaleIs, TopIs
<1>2. j \in 0..Scales /\ (j = 0 \/ a >= TwoTo[Precision + j - 1]) /\ a = q * TwoTo[j] /\ q \in Nat
  BY DEF Representable, ScaleIs
<1>3. j =< i
  <2>1. SUFFICES ASSUME j > i PROVE FALSE
    BY <1>1, <1>2
  <2>2. j # 0 /\ Precision + j - 1 \in UnitScale..Top /\ UnitScale \in 0..Top
    BY <1>1, <1>2, <2>1, TopIs
  <2>3. Unit =< TwoTo[Precision + j - 1] /\ TwoTo[Precision + j - 1] \in Nat
    BY <2>2, PowersGrow, UnitScaleIs, Powers
  <2>4. QED
    BY <1>2, <2>2, <2>3, UnitIs
<1>4. CASE a < Half
  BY <1>3, <1>4, UnitIs
<1>5. CASE a >= Half
  <2>1. ScaleIs(a, i)
    BY <1>5, ScaleBelowOne
  <2>2. a =< a /\ ScaleIs(a, j)
    BY DEF Representable
  <2>3. j = i
    <3>1. i =< j
      BY <2>1, <2>2, ScalesGrow
    <3>2. QED
      BY <1>1, <1>2, <1>3, <3>1
  <2>4. a = q * Ulp
    BY <1>2, <2>3 DEF Ulp
  <2> DEFINE t == TwoTo[Precision]
  <2>5. t \in Nat /\ Unit = t * Ulp /\ Ulp \in Nat \ {0}
    <3>1. Precision \in 0..Top
      BY TopIs
    <3>2. QED
      BY <3>1, UnitIs, Powers
  <2> HIDE DEF t
  <2>6. q < t
    <3>1. SUFFICES ASSUME q >= t PROVE FALSE
      BY <1>2, <2>5
    <3>2. q - t \in Nat
      BY <1>2, <2>5, <3>1
    <3>3. (q - t) * Ulp \in Nat /\ q * Ulp = t * Ulp + (q - t) * Ulp
      BY <1>2, <2>5, <3>2, ProductIsNatural
    <3>4. QED
      BY <2>4, <2>5, <3>3, UnitIs
  <2>7. (t - 1) - q \in Nat
    BY <1>2, <2>5, <2>6
  <2>8. ((t - 1) - q) * Ulp \in Nat /\ t * Ulp = (q * Ulp + Ulp) + ((t - 1) - q) * Ulp
    BY <1>2, <2>5, <2>7, ProductIsNatural
  <2>9. QED
    BY <1>3, <2>4, <2>5, <2>8, <1>2
<1>6. QED
  BY <1>4, <1>5, UnitIs

LEMMA RepresentableRoom ==
    ASSUME NEW a \in Nat, NEW j, NEW q, Representable(a, j, q)
    PROVE  /\ j \in 0..Scales /\ q \in Nat /\ a = q * TwoTo[j] /\ TwoTo[j] \in Nat \ {0}
           /\ TwoTo[Precision + j] \in Nat /\ a + TwoTo[j] =< TwoTo[Precision + j]
<1>1. j \in 0..Scales /\ q \in Nat /\ a = q * TwoTo[j] /\ a < TwoTo[Precision + j]
  BY DEF Representable, ScaleIs
<1> DEFINE s == TwoTo[j]
           t == TwoTo[Precision]
<1>2. s \in Nat \ {0} /\ TwoTo[Precision + j] = t * s
  BY <1>1, ScalesFit
<1>3. t \in Nat
  BY <1>1, ScalesFit, Powers
<1>4. a = q * s
  BY <1>1
<1> HIDE DEF s, t
<1>5. q * s < t * s
  BY <1>1, <1>2, <1>4
<1>6. q * s + s =< t * s
  BY <1>1, <1>2, <1>3, <1>5, NextMultiple
<1>7. t * s \in Nat
  BY <1>2, <1>3
<1>8. QED
  BY <1>1, <1>2, <1>4, <1>6, <1>7 DEF s

LEMMA ScaleAtMost ==
    ASSUME NEW k \in Nat, NEW m \in 0..Scales, k < TwoTo[Precision + m], NEW j, ScaleIs(k, j)
    PROVE  j \in 0..Scales /\ j =< m /\ TwoTo[j] \in Nat \ {0} /\ TwoTo[m] \in Nat /\ TwoTo[j] =< TwoTo[m]
<1>1. j \in 0..Scales /\ (j = 0 \/ k >= TwoTo[Precision + j - 1])
  BY DEF ScaleIs
<1>2. TwoTo[j] \in Nat \ {0} /\ TwoTo[m] \in Nat
  BY <1>1, ScalesFit
<1>3. j =< m
  <2>1. SUFFICES ASSUME j > m PROVE FALSE
    BY <1>1
  <2>2. Precision + m \in 0..Top /\ Precision + j - 1 \in (Precision + m)..Top /\ j # 0
    BY <1>1, <2>1, TopIs
  <2>3. TwoTo[Precision + m] =< TwoTo[Precision + j - 1]
    BY <2>2, PowersGrow
  <2>4. TwoTo[Precision + m] \in Nat /\ TwoTo[Precision + j - 1] \in Nat
    BY <2>2, Powers, TopIs
  <2>5. QED
    BY <1>1, <2>2, <2>3, <2>4
<1>4. j \in 0..Top /\ m \in j..Top
  BY <1>1, <1>3, TopIs
<1>5. TwoTo[j] =< TwoTo[m]
  BY <1>4, PowersGrow
<1>6. QED
  BY <1>1, <1>2, <1>3, <1>5

LEMMA SameScale ==
    ASSUME NEW a \in Nat, NEW b \in Nat, a =< b, NEW j, ScaleIs(a, j), b < TwoTo[Precision + j]
    PROVE  ScaleIs(b, j)
<1>1. j \in 0..Scales /\ (j = 0 \/ a >= TwoTo[Precision + j - 1])
  BY DEF ScaleIs
<1>2. j # 0 => TwoTo[Precision + j - 1] \in Nat
  <2>1. j # 0 => Precision + j - 1 \in 0..Top
    BY <1>1, ScalesFit
  <2>2. QED
    BY <2>1, Powers
<1>3. j # 0 => b >= TwoTo[Precision + j - 1]
  BY <1>1, <1>2
<1>4. QED
  BY <1>1, <1>3 DEF ScaleIs

\* Twice a number of scale j has no larger scale than j + 1.
LEMMA NextScale ==
    ASSUME NEW a \in Nat, NEW j, ScaleIs(a, j), NEW b \in Nat, b =< 2 * a, NEW i, ScaleIs(b, i)
    PROVE  /\ i \in 0..Scales /\ j \in 0..Scales /\ i =< j + 1
           /\ TwoTo[i] \in Nat \ {0} /\ TwoTo[j] \in Nat \ {0} /\ TwoTo[i] =< 2 * TwoTo[j]
<1>1. i \in 0..Scales /\ j \in 0..Scales /\ a < TwoTo[Precision + j]
  BY DEF ScaleIs
<1>2. TwoTo[i] \in Nat \ {0} /\ TwoTo[j] \in Nat \ {0}
  BY <1>1, ScalesFit
<1>3. CASE j = Scales
  <2>1. i =< j /\ i \in 0..Top /\ j \in i..Top
    BY <1>1, <1>3, TopIs
  <2>2. TwoTo[i] =< TwoTo[j]
    BY <2>1, PowersGrow
  <2>3. QED
    BY <1>1, <1>2, <2>1, <2>2
<1>4. CASE j # Scales
  <2>1. /\ j + 1 \in 0..Scales /\ Precision + (j + 1) \in 1..Top /\ (Precision + (j + 1)) - 1 = Precision + j
        /\ j + 1 \in 1..Top /\ (j + 1) - 1 = j /\ Precision + j \in 0..Top
    BY <1>1, <1>4, TopIs
  <2>2. TwoTo[Precision + (j + 1)] = 2 * TwoTo[Precision + j] /\ TwoTo[j + 1] = 2 * TwoTo[j]
    BY <2>1, Powers
  <2>3. TwoTo[Precision + j] \in Nat
    BY <2>1, Powers
  <2>4. b < TwoTo[Precision + (j + 1)]
    BY <1>1, <2>2, <2>3
  <2>5. i =< j + 1 /\ TwoTo[i] =< TwoTo[j + 1]
    BY <2>1, <2>4, ScaleAtMost
  <2>6. QED
    BY <1>1, <1>2, <2>2, <2>5
<1>5. QED
  BY <1>3, <1>4

\* Large numbers: their binade ends at an integer.
LEMMA BinadeEnds ==
    ASSUME NEW a \in Nat, a >= Half, NEW j, NEW q, Representable(a, j, q)
    PROVE  /\ \E w \in Nat : TwoTo[Precision + j] = w * Unit
           /\ a >= Unit => 2 * Ulp =< TwoTo[j] /\ j > UnitScale - Precision
<1> DEFINE u == UnitScale
           t == TwoTo[Precision + j]
<1>1. j \in 0..Scales /\ t \in Nat /\ a < t /\ ScaleIs(a, j)
  BY RepresentableRoom DEF Representable, ScaleIs
<1>2. /\ Precision \in Nat /\ Top \in Nat /\ Top = Precision + Scales /\ Scales \in Nat
      /\ u \in Precision..(Top - 1) /\ {u, u - 1, u + 1, u - Precision} \subseteq 0..Top
      /\ Unit = TwoTo[u] /\ Half = TwoTo[u - 1] /\ Precision >= 2
  BY TopIs, UnitScaleIs DEF Half
<1> HIDE DEF u
<1>3. Precision + j \in 0..Top
  BY <1>1, <1>2
<1>4. Precision + j >= u
  <2>1. SUFFICES ASSUME Precision + j < u PROVE FALSE
    BY <1>2, <1>3
  <2>2. u - 1 \in (Precision + j)..Top
    BY <1>2, <1>3, <2>1
  <2>3. t =< Half
    BY <1>2, <1>3, <2>2, PowersGrow
  <2>4. QED
    BY <1>1, <2>3, UnitIs
<1>5. PICK w \in Nat \ {0} : t = w * Unit
  <2>1. u \in 0..Top /\ Precision + j \in u..Top
    BY <1>2, <1>3, <1>4
  <2>2. QED
    BY <1>2, <2>1, PowersDivide
<1>6. ASSUME a >= Unit PROVE 2 * Ulp =< TwoTo[j] /\ j > u - Precision
  <2>1. Precision + j > u
    <3>1. SUFFICES ASSUME Precision + j = u PROVE FALSE
      BY <1>2, <1>3, <1>4
    <3>2. t = Unit
      BY <1>2, <3>1
    <3>3. QED
      BY <1>1, <1>6, <3>2
  <2>2. u - Precision \in 0..Top /\ j \in (u - Precision)..Top /\ u - Precision < j
    BY <1>1, <1>2, <2>1
  <2>3. 2 * TwoTo[u - Precision] =< TwoTo[j]
    BY <2>2, PowersGrow
  <2>4. QED
    BY <2>2, <2>3 DEF Ulp, u
<1>7. QED
  BY <1>5, <1>6 DEF u, t

\* Numbers more than 1.0 apart are integers, and less than 1.0 is lost in a sum.
LEMMA LargeSum ==
    ASSUME NEW a \in Nat, NEW j, NEW q, Representable(a, j, q), j > UnitScale, NEW b \in Nat, b < Unit
    PROVE  /\ \E n \in Nat : a = n * Unit
           /\ Rounded(a + b, 1) = a /\ 2 * Unit =< TwoTo[j]
<1> DEFINE s == TwoTo[j]
<1>1. j \in 0..Scales /\ q \in Nat /\ a = q * s /\ s \in Nat \ {0} /\ a + s =< TwoTo[Precision + j]
      /\ TwoTo[Precision + j] \in Nat
  BY RepresentableRoom
<1>2. PICK c \in Nat \ {0} : s = c * Unit /\ \E d \in Nat \ {0} : c = 2 * d
  <2>1. UnitScale \in 0..Top /\ j \in UnitScale..Top
    BY <1>1, TopIs, UnitScaleIs
  <2>2. UnitScale < j /\ TwoTo[UnitScale] = Unit
    BY UnitScaleIs
  <2>3. PICK c \in Nat \ {0} : s = c * TwoTo[UnitScale] /\ (UnitScale < j => \E d \in Nat \ {0} : c = 2 * d)
    BY <2>1, PowersDivide
  <2>4. QED
    BY <2>2, <2>3
<1>3. PICK d \in Nat \ {0} : c = 2 * d
  BY <1>2
<1> HIDE DEF s
<1>4. 2 * Unit =< s
  <2>1. d - 1 \in Nat /\ Unit \in Nat
    BY UnitIs
  <2>2. (d - 1) * Unit \in Nat /\ s = 2 * Unit + 2 * ((d - 1) * Unit)
    BY <1>2, <1>3, <2>1
  <2>3. QED
    BY <2>1, <2>2
<1>5. q * c \in Nat /\ a = (q * c) * Unit
  BY <1>1, <1>2, UnitIs
<1>6. ScaleIs(a + b, j)
  <2>1. a + b \in Nat /\ a =< a + b /\ a + b < TwoTo[Precision + j] /\ ScaleIs(a, j)
    BY <1>1, <1>4, UnitIs DEF Representable
  <2>2. QED
    BY <2>1, SameScale
<1>7. Rounded(a + b, 1) = Steps(q, s, b) * s
  <2>1. b \in 0..(s - 1) /\ a + b \in Nat /\ a + b = q * s + b
    BY <1>1, <1>4, UnitIs
  <2>2. QED
    BY <1>1, <1>6, <2>1, RoundedIs DEF s
<1>8. Steps(q, s, b) = q
  BY <1>1, <1>4, UnitIs DEF Steps
<1>9. QED
  BY <1>1, <1>4, <1>5, <1>7, <1>8 DEF s

\* An integer with AlmostOne added: the sum is rounded to the next integer.
LEMMA WholeSum ==
    ASSUME NEW a \in Nat, a >= Unit, NEW j, NEW q, Representable(a, j, q), j =< UnitScale,
           NEW n \in Nat, a = n * Unit
    PROVE  Rounded(a + AlmostOne, 1) = (n + 1) * Unit
<1> DEFINE s == TwoTo[j]
<1>1. j \in 0..Scales /\ a = q * s /\ s \in Nat \ {0}
  BY RepresentableRoom
<1>2. /\ Unit \in Nat \ {0} /\ Ulp \in Nat \ {0} /\ 2 * Half = Unit /\ 2 * Ulp =< Half
      /\ Half \in Nat /\ AlmostOne = Unit - Ulp
  BY UnitIs
<1>3. 2 * Ulp =< s /\ j > UnitScale - Precision
  BY <1>2, BinadeEnds
<1>4. PICK w \in Nat : TwoTo[Precision + j] = w * Unit
  BY <1>2, BinadeEnds
<1>5. PICK d \in Nat \ {0} : Unit = d * s /\ (j < UnitScale => \E e \in Nat \ {0} : d = 2 * e)
  <2>1. j \in 0..Top /\ UnitScale \in j..Top
    BY <1>1, TopIs, UnitScaleIs
  <2>2. TwoTo[UnitScale] = Unit
    BY UnitScaleIs
  <2>3. \E d \in Nat \ {0} : TwoTo[UnitScale] = d * s /\ (j < UnitScale => \E e \in Nat \ {0} : d = 2 * e)
    BY <2>1, PowersDivide
  <2>4. QED
    BY <2>2, <2>3
<1>6. ASSUME s = 2 * Ulp PROVE \E e \in Nat \ {0} : d = 2 * e
  <2>1. j # UnitScale
    BY <1>2, <1>6, UnitScaleIs
  <2>2. j < UnitScale
    BY <1>1, <2>1, UnitScaleIs, TopIs
  <2>3. QED
    BY <1>5, <2>2
<1>7. ScaleIs(a + AlmostOne, j)
  <2>1. n * Unit < w * Unit
    BY <1>4 DEF Representable, ScaleIs
  <2>2. n * Unit + Unit =< w * Unit
    BY <1>2, <2>1, NextMultiple
  <2> DEFINE p == w * Unit
  <2>3. p \in Nat /\ a + Unit =< p /\ TwoTo[Precision + j] = p
    BY <1>2, <1>4, <2>2
  <2> HIDE DEF p
  <2>4. a + AlmostOne \in Nat /\ a =< a + AlmostOne /\ a + AlmostOne < TwoTo[Precision + j]
    BY <1>2, <2>3
  <2>5. ScaleIs(a, j)
    BY DEF Representable
  <2>6. QED
    BY <2>4, <2>5, SameScale
<1> HIDE DEF s
<1> DEFINE m == (n + 1) * d
<1>8. m \in Nat /\ m >= 1 /\ m * s = (n + 1) * Unit /\ (n + 1) * Unit = a + Unit
  <2>1. n * d \in Nat /\ m = n * d + d
    BY <1>5
  <2>2. m * s = (n + 1) * Unit
    BY <1>1, <1>5
  <2>3. QED
    BY <1>2, <1>5, <2>1, <2>2
<1>9. s = 2 * Ulp => (m - 1) % 2 = 1
  <2>1. SUFFICES ASSUME s = 2 * Ulp PROVE (m - 1) % 2 = 1
    OBVIOUS
  <2>2. PICK e \in Nat \ {0} : d = 2 * e
    BY <1>6, <2>1
  <2>3. n * e \in Nat /\ m = 2 * (n * e) + 2 * e
    BY <2>2
  <2> HIDE DEF m
  <2>4. QED
    BY <2>2, <2>3
<1> HIDE DEF m
<1>10. Rounded(a + AlmostOne, 1) = Steps(m - 1, s, s - Ulp) * s
  <2>1. m - 1 \in Nat /\ s - Ulp \in 0..(s - 1) /\ a + AlmostOne \in Nat
    BY <1>1, <1>2, <1>3, <1>8
  <2>2. (m - 1) * s = m * s - s
    BY <1>1, <1>8
  <2>3. a + AlmostOne = (m - 1) * s + (s - Ulp)
    BY <1>1, <1>2, <1>8, <2>2
  <2>4. QED
    BY <1>7, <2>1, <2>3, RoundedIs DEF s
<1>11. Steps(m - 1, s, s - Ulp) = m
  BY <1>1, <1>2, <1>3, <1>8, <1>9 DEF Steps
<1>12. QED
  BY <1>8, <1>10, <1>11

LEMMA SumFits ==
    ASSUME NEW a \in Nat, a =< TwoTo[Top - 1], NEW b \in Nat, b < Unit
    PROVE  a + b \in Nat /\ a + b < TwoTo[Top]
BY UnitIs

\* A number between two integers with AlmostOne added: the upper one is passed.
LEMMA BrokenSum ==
    ASSUME NEW a \in Nat, a >= Unit, a =< TwoTo[Top - 1], NEW j, NEW q, Representable(a, j, q), j =< UnitScale,
           NEW n \in Nat, n * Unit < a, a < n * Unit + Unit
    PROVE  Reaches(Rounded(a + AlmostOne, 1), n + 1)
<1> DEFINE s == TwoTo[j]
           k == a + AlmostOne
           R == Rounded(k, 1)
<1>1. j \in 0..Scales /\ q \in Nat /\ a = q * s /\ s \in Nat \ {0} /\ ScaleIs(a, j)
  BY RepresentableRoom DEF Representable
<1>2. /\ Unit \in Nat \ {0} /\ Ulp \in Nat \ {0} /\ 2 * Half = Unit /\ 2 * Ulp =< Half
      /\ Half \in Nat /\ AlmostOne = Unit - Ulp /\ AlmostOne \in Nat /\ AlmostOne < Unit
  BY UnitIs
<1>3. 2 * Ulp =< s
  BY <1>2, BinadeEnds
<1>4. PICK d \in Nat \ {0} : Unit = d * s
  <2>1. j \in 0..Top /\ UnitScale \in j..Top
    BY <1>1, TopIs, UnitScaleIs
  <2>2. TwoTo[UnitScale] = Unit
    BY UnitScaleIs
  <2>3. \E d \in Nat \ {0} : TwoTo[UnitScale] = d * s
    BY <2>1, PowersDivide
  <2>4. QED
    BY <2>2, <2>3
<1>5. k \in Nat /\ k < TwoTo[Top] /\ k =< 2 * a
  <2>1. a + AlmostOne \in Nat /\ a + AlmostOne < TwoTo[Top]
    BY <1>2, SumFits
  <2>2. QED
    BY <1>2, <2>1
<1>6. PICK i : ScaleIs(k, i)
  BY <1>5, ScaleExists
<1>7. i \in 0..Scales /\ i =< j + 1 /\ TwoTo[i] \in Nat \ {0} /\ TwoTo[i] =< 2 * s
  <2> HIDE DEF k
  <2>1. QED
    BY <1>1, <1>5, <1>6, NextScale
<1> HIDE DEF s
<1> DEFINE p == n * Unit
<1>8. p + s =< a /\ a + s =< p + Unit /\ p \in Nat
  <2>1. n * d \in Nat /\ p = (n * d) * s /\ (n * d + d) \in Nat /\ p + Unit = (n * d + d) * s
    BY <1>1, <1>2, <1>4
  <2>2. (n * d) * s < q * s /\ q * s < (n * d + d) * s
    BY <1>1, <2>1
  <2>3. (n * d) * s + s =< q * s /\ q * s + s =< (n * d + d) * s
    BY <1>1, <2>1, <2>2, NextMultiple
  <2>4. QED
    BY <1>1, <1>2, <2>1, <2>3
<1>9. j < UnitScale
  <2>1. s # Unit
    BY <1>1, <1>2, <1>8
  <2>2. j # UnitScale
    BY <2>1, UnitScaleIs DEF s
  <2>3. QED
    BY <1>1, <2>2, UnitScaleIs, TopIs
<1>10. i =< UnitScale
  BY <1>1, <1>7, <1>9, UnitScaleIs, TopIs
<1>11. R \in Nat /\ 2 * R =< 2 * k + TwoTo[i]
  <2> HIDE DEF k
  <2>1. QED
    BY <1>5, <1>6, RoundedBound
<1>12. (n + 1) * Unit = p + Unit /\ n + 1 \in Nat
  BY <1>2
<1>13. p + Unit =< R
  <2>1. (n + 1) * Unit =< k
    BY <1>1, <1>2, <1>3, <1>8, <1>12
  <2> HIDE DEF k
  <2>2. (n + 1) * Unit =< R
    BY <1>5, <1>6, <1>10, <1>12, <2>1, KeepsUnits
  <2>3. QED
    BY <1>12, <2>2
<1> HIDE DEF p, R
<1>14. R < (p + Unit) + Unit
  BY <1>1, <1>2, <1>7, <1>8, <1>11
<1>15. QED
  BY <1>11, <1>12, <1>13, <1>14 DEF Reaches, R

\* AlmostOne is the last number below 1.0: an odd number of Ulps.
LEMMA AlmostIs ==
    \E t \in Nat : Unit = t * Ulp /\ AlmostOne = (t - 1) * Ulp /\ t >= 4 /\ (t - 1) % 2 = 1
<1> DEFINE t == TwoTo[Precision]
<1>1. /\ Precision \in 1..Top /\ Precision \in 0..Top /\ Precision - 1 \in 1..Top /\ Precision - 1 \in 0..Top
      /\ (Precision - 1) - 1 \in 0..Top
  BY TopIs
<1>2. t = 2 * TwoTo[Precision - 1] /\ TwoTo[Precision - 1] = 2 * TwoTo[(Precision - 1) - 1]
      /\ TwoTo[Precision - 1] \in Nat \ {0} /\ TwoTo[(Precision - 1) - 1] \in Nat \ {0}
  BY <1>1, Powers
<1>3. Unit = t * Ulp /\ AlmostOne = Unit - Ulp /\ Ulp \in Nat
  BY UnitIs
<1> HIDE DEF t
<1>4. t \in Nat /\ t >= 4 /\ (t - 1) % 2 = 1
  BY <1>2
<1>5. AlmostOne = (t - 1) * Ulp
  BY <1>3, <1>4
<1>6. QED
  BY <1>3, <1>4, <1>5

\* A number below 1.0 with AlmostOne added.
LEMMA SmallSum ==
    ASSUME NEW a \in Nat, a < Unit, NEW j, NEW q, Representable(a, j, q)
    PROVE  /\ 2 * a < Ulp => Reaches(Rounded(a + AlmostOne, 1), 0) /\ Rounded(a + AlmostOne, 1) # 0
           /\ 2 * a >= Ulp => Reaches(Rounded(a + AlmostOne, 1), 1)
<1> DEFINE k == a + AlmostOne
           R == Rounded(k, 1)
           i == UnitScale - Precision
<1>1. /\ Unit \in Nat \ {0} /\ Ulp \in Nat \ {0} /\ 2 * Half = Unit /\ 2 * Ulp =< Half
      /\ Half \in Nat /\ AlmostOne = Unit - Ulp /\ AlmostOne \in Nat /\ AlmostOne < Unit
  BY UnitIs
<1>2. PICK t \in Nat : Unit = t * Ulp /\ AlmostOne = (t - 1) * Ulp /\ t >= 4 /\ (t - 1) % 2 = 1
  BY AlmostIs
<1>3. ASSUME a < Ulp
      PROVE  R = Steps(t - 1, Ulp, a) * Ulp
  <2>1. k \in Nat /\ k < Unit /\ k >= Half
    BY <1>1, <1>3
  <2> HIDE DEF k
  <2>2. ScaleIs(k, i)
    BY <2>1, ScaleBelowOne
  <2>3. t - 1 \in Nat /\ a \in 0..(Ulp - 1) /\ k = (t - 1) * Ulp + a
    BY <1>1, <1>2, <1>3 DEF k
  <2>4. QED
    BY <2>1, <2>2, <2>3, RoundedIs DEF Ulp
<1>4. CASE 2 * a < Ulp
  <2>1. a < Ulp /\ Steps(t - 1, Ulp, a) = t - 1
    BY <1>1, <1>2, <1>4 DEF Steps
  <2>2. R = AlmostOne
    BY <1>2, <1>3, <2>1
  <2>3. 0 * Unit = 0
    BY <1>1
  <2>4. ~(2 * a >= Ulp)
    BY <1>1, <1>4
  <2>5. Reaches(R, 0) /\ R # 0
    BY <1>1, <2>2, <2>3 DEF Reaches
  <2>6. QED
    BY <2>4, <2>5
<1>5. ASSUME 2 * a >= Ulp
      PROVE  Reaches(R, 1)
  <2>1. 1 * Unit = Unit
    BY <1>1
  <2>2. CASE a < Ulp
    <3>1. Steps(t - 1, Ulp, a) = (t - 1) + 1
      BY <1>1, <1>2, <1>5 DEF Steps
    <3>2. (t - 1) + 1 = t
      BY <1>2
    <3>3. R = Unit
      BY <1>2, <1>3, <2>2, <3>1, <3>2
    <3>4. QED
      BY <1>1, <2>1, <3>3 DEF Reaches
  <2>3. CASE a >= Ulp
    <3>1. a + Ulp =< Unit
      BY BelowOne
    <3>2. k \in Nat /\ Unit =< k /\ k + 2 * Ulp =< 2 * Unit
      BY <1>1, <2>3, <3>1
    <3> HIDE DEF k
    <3>3. 2 * Unit =< TwoTo[Top] /\ TwoTo[Top] \in Nat
      BY UnitIs
    <3>4. k < TwoTo[Top]
      BY <1>1, <3>2, <3>3
    <3>5. PICK l : ScaleIs(k, l)
      BY <3>2, <3>4, ScaleExists
    <3>6. AlmostOne \in Nat /\ ScaleIs(AlmostOne, i)
      BY <1>1, ScaleBelowOne
    <3>7. k =< 2 * AlmostOne
      BY <1>1, <3>2
    <3>8. i \in 0..Scales /\ l \in 0..Scales /\ l =< i + 1 /\ TwoTo[l] \in Nat /\ TwoTo[l] =< 2 * Ulp
      BY <3>2, <3>5, <3>6, <3>7, NextScale DEF Ulp
    <3>9. l =< UnitScale
      BY <3>8, TopIs, UnitScaleIs
    <3>10. R \in Nat /\ 2 * R =< 2 * k + TwoTo[l]
      BY <3>2, <3>4, <3>5, RoundedBound
    <3>11. 1 * Unit =< R
      BY <3>2, <3>4, <3>5, <3>9, <2>1, KeepsUnits
    <3>12. R < Unit + Unit
      BY <1>1, <3>2, <3>8, <3>10
    <3>13. QED
      BY <2>1, <3>10, <3>11, <3>12 DEF Reaches
  <2>4. QED
    BY <1>1, <2>2, <2>3
<1>6. CASE ~(2 * a < Ulp)
  <2>1. 2 * a >= Ulp
    BY <1>1, <1>6
  <2>2. QED
    BY <1>5, <1>6, <2>1
<1>7. QED
  BY <1>4, <1>6

\* A number below one half with one half added: only the last one is rounded to 1.0.
LEMMA HalfOfSmall ==
    ASSUME NEW a \in Nat, a < Half, NEW j, NEW q, Representable(a, j, q)
    PROVE  \/ Reaches(Rounded(a + Half, 1), 0) /\ Rounded(a + Half, 1) # 0
           \/ Reaches(Rounded(a + Half, 1), 1) /\ a + TwoTo[j] = Half
<1> DEFINE k == a + Half
           R == Rounded(k, 1)
           i == UnitScale - Precision
<1>1. Unit \in Nat \ {0} /\ Ulp \in Nat \ {0} /\ 2 * Half = Unit /\ 2 * Ulp =< Half /\ Half \in Nat
  BY UnitIs
<1>2. k \in Nat /\ k < Unit /\ k >= Half
  BY <1>1
<1>3. ScaleIs(k, i) /\ k < TwoTo[Top]
  <2> HIDE DEF k
  <2>1. ScaleIs(k, i)
    BY <1>2, ScaleBelowOne
  <2>2. Unit =< TwoTo[Top - 1] /\ 2 * TwoTo[Top - 1] = TwoTo[Top] /\ TwoTo[Top - 1] \in Nat
    BY UnitIs
  <2>3. QED
    BY <1>1, <1>2, <2>1, <2>2
<1>4. i \in Nat /\ i =< UnitScale /\ i \in 0..Scales
  BY UnitScaleIs, TopIs
<1>5. R \in Nat /\ 2 * R =< 2 * k + Ulp /\ R =< Unit /\ R >= 0
  <2> HIDE DEF k, i
  <2>1. R \in Nat /\ 2 * R =< 2 * k + TwoTo[i]
    BY <1>2, <1>3, RoundedBound
  <2>2. 1 * Unit = Unit
    BY <1>1
  <2>3. 1 * Unit >= k
    BY <1>1, <1>2, <2>2
  <2>4. 1 * Unit >= R
    BY <1>2, <1>3, <1>4, <2>3, KeepsUnits
  <2>5. QED
    BY <2>1, <2>2, <2>4 DEF Ulp, i
<1>6. R # 0
  <2> DEFINE t == TwoTo[Precision - 1]
  <2>1. Half = t * Ulp /\ t \in Nat
    <3>1. /\ Precision - 1 \in 0..Top /\ i \in 0..(Top - (Precision - 1))
          /\ (Precision - 1) + i = UnitScale - 1
      BY TopIs, UnitScaleIs
    <3>2. TwoTo[(Precision - 1) + i] = TwoTo[Precision - 1] * TwoTo[i]
      BY <3>1, PowersMultiply
    <3>3. QED
      BY <3>1, <3>2, Powers DEF Half, Ulp
  <2> HIDE DEF t, k
  <2>2. t * TwoTo[i] =< k
    BY <1>2, <2>1 DEF Ulp
  <2>3. t * TwoTo[i] =< R
    BY <1>2, <1>3, <2>1, <2>2, RoundedBound
  <2>4. Half =< R
    BY <2>1, <2>3 DEF Ulp
  <2>5. QED
    BY <1>1, <2>4
<1> HIDE DEF R
<1>7. CASE R < Unit
  <2>1. 0 * Unit = 0
    BY <1>1
  <2>2. Reaches(R, 0)
    <3>1. R \in Nat /\ 0 =< R /\ R < 0 + Unit
      BY <1>1, <1>5, <1>7
    <3>2. QED
      BY <2>1, <3>1, Zenon DEF Reaches
  <2>3. QED
    BY <1>6, <2>2 DEF R
<1>8. CASE R = Unit
  <2>1. Reaches(R, 1)
    BY <1>1, <1>5, <1>8 DEF Reaches
  <2>2. 2 * a + Ulp >= 2 * Half
    BY <1>1, <1>5, <1>8
  <2>3. i # 0
    <3>1. SUFFICES ASSUME i = 0 PROVE FALSE
      OBVIOUS
    <3>2. Ulp = 1
      BY <3>1, Powers DEF Ulp
    <3>3. QED
      BY <1>1, <2>2, <3>2
  <2> DEFINE e == TwoTo[i - 1]
  <2>4. /\ i \in 1..Top /\ i - 1 \in 0..Scales /\ i - 1 \in 0..Top /\ Precision + (i - 1) = UnitScale - 1
        /\ i - 1 \in Nat
        /\ i - 1 # 0 => /\ Precision + (i - 1) - 1 = (UnitScale - 1) - 1
                        /\ (UnitScale - 1) - 1 \in 0..Top
        /\ UnitScale - 1 \in 1..Top
    BY <1>4, <2>3, TopIs, UnitScaleIs
  <2>5. Ulp = 2 * e /\ e \in Nat \ {0}
    BY <2>4, Powers DEF Ulp
  <2>6. a + e >= Half
    BY <1>1, <2>2, <2>5
  <2>7. Half = 2 * TwoTo[(UnitScale - 1) - 1]
    BY <2>4, Powers DEF Half
  <2>8. ScaleIs(a, i - 1)
    <3>1. TwoTo[Precision + (i - 1)] = Half
      BY <2>4 DEF Half
    <3>2. TwoTo[(UnitScale - 1) - 1] \in Nat /\ 4 * e =< Half /\ a >= TwoTo[(UnitScale - 1) - 1]
      <4>1. (UnitScale - 1) - 1 \in 0..Top
        BY UnitScaleIs, TopIs
      <4>2. TwoTo[(UnitScale - 1) - 1] \in Nat
        BY <4>1, Powers
      <4> HIDE DEF e
      <4>3. QED
        BY <1>1, <2>5, <2>6, <2>7, <4>2
    <3>3. i - 1 = 0 \/ a >= TwoTo[Precision + (i - 1) - 1]
      BY <2>4, <3>2
    <3> HIDE DEF i
    <3>4. QED
      BY <2>4, <3>1, <3>3 DEF ScaleIs
  <2>9. j = i - 1
    <3>1. ScaleIs(a, j) /\ a =< a /\ j \in 0..Scales
      BY RepresentableRoom DEF Representable
    <3> HIDE DEF i
    <3>2. j =< i - 1 /\ i - 1 =< j
      BY <2>8, <3>1, ScalesGrow
    <3>3. QED
      BY <2>4, <3>1, <3>2
  <2>10. a + TwoTo[j] =< Half
    <3>1. a + TwoTo[j] =< TwoTo[Precision + j]
      BY RepresentableRoom
    <3>2. TwoTo[Precision + j] = Half
      BY <2>4, <2>9 DEF Half
    <3>3. QED
      BY <3>1, <3>2
  <2>11. a + TwoTo[j] = Half
    <3>1. TwoTo[j] = e
      BY <2>9
    <3> HIDE DEF e
    <3>2. QED
      BY <1>1, <2>5, <2>6, <2>10, <3>1
  <2>12. QED
    BY <2>1, <2>11 DEF R
<1>9. QED
  BY <1>1, <1>5, <1>7, <1>8

\* A larger number with a spacing below 1.0: the sum keeps its whole part.
LEMMA HalfOfBroken ==
    ASSUME NEW a \in Nat, a >= Half, a =< TwoTo[Top - 1], NEW j, NEW q, Representable(a, j, q), j < UnitScale
    PROVE  \E n \in Nat : Reaches(a + Half, n) /\ Reaches(Rounded(a + Half, 1), n)
<1> DEFINE s == TwoTo[j]
           k == a + Half
           R == Rounded(k, 1)
<1>1. /\ j \in 0..Scales /\ q \in Nat /\ a = q * s /\ s \in Nat \ {0} /\ ScaleIs(a, j)
      /\ a + s =< TwoTo[Precision + j] /\ TwoTo[Precision + j] \in Nat
  BY RepresentableRoom DEF Representable
<1>2. Unit \in Nat \ {0} /\ 2 * Half = Unit /\ Half \in Nat /\ Half < Unit
  BY UnitIs
<1>3. PICK d \in Nat \ {0} : Half = d * s
  <2>1. j \in 0..Top /\ UnitScale - 1 \in j..Top
    BY <1>1, TopIs, UnitScaleIs
  <2>2. \E d \in Nat \ {0} : TwoTo[UnitScale - 1] = d * s
    BY <2>1, PowersDivide
  <2>3. QED
    BY <2>2 DEF Half
<1>4. PICK w \in Nat : TwoTo[Precision + j] = w * Unit
  BY BinadeEnds
<1>5. k \in Nat /\ k < TwoTo[Top] /\ k =< 2 * a
  <2>1. a + Half \in Nat /\ a + Half < TwoTo[Top]
    BY <1>2, SumFits
  <2>2. QED
    BY <1>2, <2>1
<1>6. CASE k < TwoTo[Precision + j]
  <2>1. ScaleIs(k, j)
    <3>1. a =< k
      BY <1>2
    <3> HIDE DEF k
    <3>2. QED
      BY <1>1, <1>5, <1>6, <3>1, SameScale
  <2>2. R = k
    <3> HIDE DEF s
    <3>1. q + d \in Nat /\ k = (q + d) * s
      BY <1>1, <1>3
    <3> HIDE DEF k
    <3>2. Representable(k, j, q + d) /\ j \in Nat
      BY <1>1, <2>1, <3>1 DEF Representable, s
    <3>3. QED
      BY <1>5, <3>1, <3>2, RepresentableIs
  <2> DEFINE n == k \div Unit
  <2> HIDE DEF k
  <2>3. n \in Nat /\ k % Unit \in 0..(Unit - 1) /\ k = Unit * n + (k % Unit)
    BY <1>2, <1>5, DivRest
  <2> HIDE DEF n
  <2>4. Unit * n = n * Unit /\ n * Unit \in Nat
    BY <1>2, <2>3
  <2>5. Reaches(k, n)
    BY <1>2, <1>5, <2>3, <2>4 DEF Reaches
  <2>6. QED
    BY <2>2, <2>3, <2>5 DEF k
<1>7. CASE k >= TwoTo[Precision + j]
  <2> DEFINE p == w * Unit
  <2>1. p \in Nat /\ a + s =< p /\ p =< k
    BY <1>1, <1>2, <1>4, <1>7
  <2>2. PICK i : ScaleIs(k, i)
    BY <1>5, ScaleExists
  <2>3. i \in 0..Scales /\ i =< j + 1 /\ TwoTo[i] \in Nat \ {0} /\ TwoTo[i] =< 2 * s
    <3> HIDE DEF k
    <3>1. QED
      BY <1>1, <1>5, <2>2, NextScale
  <2>4. i =< UnitScale
    BY <1>1, <2>3, UnitScaleIs, TopIs
  <2>5. R \in Nat /\ 2 * R =< 2 * k + TwoTo[i] /\ p =< R
    <3> HIDE DEF k
    <3>1. QED
      BY <1>5, <2>1, <2>2, <2>4, RoundedBound, KeepsUnits
  <2> HIDE DEF s, p, R
  <2>6. R < p + Unit /\ k < p + Unit
    BY <1>1, <1>2, <2>1, <2>3, <2>5
  <2>7. Reaches(k, w) /\ Reaches(R, w)
    BY <1>5, <2>1, <2>5, <2>6 DEF Reaches, p
  <2>8. QED
    BY <2>7 DEF R
<1>8. QED
  BY <1>1, <1>5, <1>6, <1>7

\* An odd integer 1.0 away from its neighbours is rounded to the next one.
LEMMA HalfOfWhole ==
    ASSUME NEW a \in Nat, NEW j, NEW q, Representable(a, j, q), j = UnitScale
    PROVE  /\ a = q * Unit /\ q \in Nat
           /\ q % 2 = 1 => Rounded(a + Half, 1) = (q + 1) * Unit
           /\ q % 2 = 0 => Rounded(a + Half, 1) = q * Unit
<1>1. /\ TwoTo[j] = Unit /\ q \in Nat /\ a = q * Unit /\ ScaleIs(a, j)
      /\ a + Unit =< TwoTo[Precision + j] /\ TwoTo[Precision + j] \in Nat
  BY RepresentableRoom, UnitScaleIs DEF Representable
<1>2. Unit \in Nat \ {0} /\ 2 * Half = Unit /\ Half \in Nat /\ Half < Unit
  BY UnitIs
<1>3. ScaleIs(a + Half, j)
  <2>1. a + Half \in Nat /\ a =< a + Half /\ a + Half < TwoTo[Precision + j]
    BY <1>1, <1>2
  <2>2. QED
    BY <1>1, <2>1, SameScale
<1>4. Rounded(a + Half, 1) = Steps(q, Unit, Half) * Unit
  <2>1. a + Half \in Nat /\ a + Half = q * TwoTo[j] + Half /\ Half \in 0..(TwoTo[j] - 1)
    BY <1>1, <1>2
  <2>2. QED
    BY <1>1, <1>3, <2>1, RoundedIs
<1>5. (q % 2 = 1 => Steps(q, Unit, Half) = q + 1) /\ (q % 2 = 0 => Steps(q, Unit, Half) = q)
  BY <1>1, <1>2 DEF Steps
<1>6. QED
  BY <1>1, <1>4, <1>5

LEMMA PartsExist ==
    ASSUME NEW a \in Nat
    PROVE  \E c, r : Parts(a, c, r)
<1> DEFINE c == a \div Unit
           r == a % Unit
<1>1. Unit \in Nat \ {0}
  BY UnitIs
<1>2. c \in Nat /\ r \in 0..(Unit - 1) /\ a = Unit * c + r
  BY <1>1, DivRest
<1> HIDE DEF c, r
<1>3. Unit * c = c * Unit
  BY <1>1, <1>2
<1>4. Parts(a, c, r)
  BY <1>2, <1>3 DEF Parts
<1>5. QED
  BY <1>4

LEMMA PartsAre ==
    ASSUME NEW a, NEW c, NEW r, Parts(a, c, r)
    PROVE  /\ a \div Unit = c /\ Cast(a) = c * Unit /\ Cast(-a) = -(c * Unit)
           /\ (-a) \div Unit = -Above(c, r)
           /\ Whole(a) <=> r = 0
           /\ Whole(-a) <=> r = 0
           /\ Above(c, r) \in Nat /\ c * Unit \in Nat /\ (c + 1) * Unit = c * Unit + Unit
<1> DEFINE p == c * Unit
<1>1. Unit \in Nat \ {0} /\ a \in Nat /\ c \in Nat /\ r \in 0..(Unit - 1) /\ a = p + r
  BY UnitIs DEF Parts
<1>2. p \in Nat /\ (c + 1) * Unit = p + Unit
  BY <1>1
<1>3. p =< a /\ a < p + Unit
  <2> HIDE DEF p
  <2>1. QED
    BY <1>1, <1>2
<1>4. a \div Unit = c /\ Cast(a) = p /\ Cast(-a) = -p
  BY <1>1, <1>3, CastIs
<1>5. Whole(a) <=> r = 0
  <2> HIDE DEF p
  <2>1. QED
    BY <1>1, <1>2, <1>4 DEF Whole
<1>6. Whole(-a) <=> r = 0
  <2> HIDE DEF p
  <2>1. -a = -p <=> a = p
    BY <1>1, <1>2
  <2>2. a = p <=> r = 0
    BY <1>1, <1>2
  <2>3. QED
    BY <1>4, <2>1, <2>2 DEF Whole
<1>7. (-a) \div Unit = -Above(c, r)
  <2> DEFINE v == Above(c, r)
  <2>1. v \in Nat /\ v * Unit = IF r = 0 THEN p ELSE p + Unit
    BY <1>1, <1>2 DEF Above
  <2>2. (-v) * Unit = -(v * Unit) /\ -v \in Int /\ -a \in Int
    BY <1>1, <2>1
  <2> HIDE DEF v, p
  <2> DEFINE g == v * Unit
  <2>3. g \in Nat /\ a =< g /\ g < a + Unit
    BY <1>1, <1>2, <2>1
  <2> HIDE DEF g
  <2>4. -g =< -a /\ -a < -g + Unit
    BY <1>1, <2>3
  <2>5. (-v) * Unit =< -a /\ -a < (-v) * Unit + Unit
    BY <2>2, <2>4 DEF g
  <2>6. (-a) \div Unit = -v
    BY <1>1, <2>2, <2>5, QuotientIs
  <2>7. QED
    BY <2>6 DEF v
<1>8. Above(c, r) \in Nat
  BY <1>1 DEF Above
<1>9. QED
  BY <1>2, <1>4, <1>5, <1>6, <1>7, <1>8

LEMMA PartsUnique ==
    ASSUME NEW a, NEW c, NEW r, Parts(a, c, r), NEW n \in Nat, a = n * Unit
    PROVE  c = n /\ r = 0
<1>1. Unit \in Nat \ {0} /\ a \in Nat /\ c \in Nat /\ r \in 0..(Unit - 1) /\ a = c * Unit + r /\ 0 \in 0..(Unit - 1)
  BY UnitIs DEF Parts
<1>2. Unit * c + r = Unit * n + 0
  BY <1>1
<1>3. QED
  BY <1>1, <1>2, SameQuotient

LEMMA SlipIs ==
    ASSUME NEW a \in Nat, NEW j, NEW q, Representable(a, j, q), NEW c, NEW r, Parts(a, c, r)
    PROVE  /\ a # 0 /\ r = 0 /\ TwoTo[j] =< Unit => Slip(a) = Unit /\ Slip(-a) = Unit
           /\ a # 0 /\ r # 0 /\ 2 * a < Ulp => Slip(a) = -Unit /\ Slip(-a) = -Unit
           /\ a = 0 \/ ((r # 0 \/ TwoTo[j] > Unit) /\ 2 * a >= Ulp) => Slip(a) = 0 /\ Slip(-a) = 0
<1>1. Spacing(a) = TwoTo[j] /\ TwoTo[j] \in Nat
  BY SpacingIs, RepresentableRoom DEF Representable
<1>2. Magnitude(a) = a /\ Magnitude(-a) = a
  <2>1. CASE a = 0
    <3>1. -a = a
      <4>1. a \in Int /\ a >= 0 /\ a =< 0
        BY <2>1
      <4>2. QED
        BY <4>1, MinusZero
    <3>2. QED
      BY <3>1 DEF Magnitude
  <2>2. CASE a # 0
    BY <2>2 DEF Magnitude
  <2>3. QED
    BY <2>1, <2>2
<1>3. Unit - AlmostOne = Ulp /\ Unit \in Nat \ {0} /\ Ulp \in Nat \ {0}
  BY UnitIs
<1>4. (Whole(a) <=> r = 0) /\ (Whole(-a) <=> r = 0)
  BY PartsAre
<1>5. -a # 0 <=> a # 0
  OBVIOUS
<1>6. \A k \in {a, -a} : Slip(k) = CASE k # 0 /\ Whole(k) /\ TwoTo[j] =< Unit -> Unit
                                     [] k # 0 /\ 2 * a < Ulp                  -> -Unit
                                     [] OTHER                                 -> 0
  BY <1>1, <1>2, <1>3 DEF Slip
<1>7. ASSUME NEW k \in {a, -a}
      PROVE  /\ a # 0 /\ r = 0 /\ TwoTo[j] =< Unit => Slip(k) = Unit
             /\ a # 0 /\ r # 0 /\ 2 * a < Ulp => Slip(k) = -Unit
             /\ a = 0 \/ ((r # 0 \/ TwoTo[j] > Unit) /\ 2 * a >= Ulp) => Slip(k) = 0
  <2>1. (Whole(k) <=> r = 0) /\ (k # 0 <=> a # 0)
    BY <1>4, <1>5
  <2>2. ~(2 * a < Ulp) <=> 2 * a >= Ulp
    BY <1>3
  <2>3. ~(TwoTo[j] =< Unit) <=> TwoTo[j] > Unit
    BY <1>1, <1>3
  <2>4. ASSUME a # 0, r = 0, TwoTo[j] =< Unit PROVE 2 * a >= Ulp /\ Slip(k) = Unit
    <3>1. 2 * a >= Ulp
      <4>1. c # 0 /\ a = c * Unit /\ c \in Nat
        BY <2>4, <1>3 DEF Parts
      <4>2. (c - 1) * Unit \in Nat /\ a = (c - 1) * Unit + Unit
        BY <1>3, <4>1
      <4>3. QED
        BY <1>3, <4>2, UnitIs
    <3>2. QED
      BY <1>6, <2>1, <2>2, <2>4, <3>1
  <2>5. ASSUME a # 0, r # 0, 2 * a < Ulp PROVE Slip(k) = -Unit
    BY <1>6, <2>1, <2>5
  <2>6. ASSUME a = 0 \/ ((r # 0 \/ TwoTo[j] > Unit) /\ 2 * a >= Ulp) PROVE Slip(k) = 0
    BY <1>6, <2>1, <2>2, <2>3, <2>6
  <2>7. QED
    BY <2>4, <2>5, <2>6
<1>8. QED
  BY <1>7

LEMMA ReachesSome ==
    ASSUME NEW x, NEW n, Reaches(x, n), n # 0
    PROVE  x # 0
<1>1. n - 1 \in Nat /\ Unit \in Nat \ {0} /\ n \in Nat /\ x \in Nat /\ n * Unit =< x
  BY UnitIs DEF Reaches
<1>2. (n - 1) * Unit \in Nat /\ n * Unit = (n - 1) * Unit + Unit
  BY <1>1
<1>3. QED
  BY <1>1, <1>2

\* What AlmostOne makes of a number: the integer above it, but for the Slip.
LEMMA AlmostSum ==
    ASSUME NEW a \in Nat, a =< TwoTo[Top - 1], NEW j, NEW q, Representable(a, j, q),
           NEW c, NEW r, Parts(a, c, r)
    PROVE  \E n : /\ Reaches(Rounded(a + AlmostOne, 1), n) /\ Rounded(a + AlmostOne, 1) # 0
                  /\ n * Unit = Above(c, r) * Unit + Slip(a)
<1> DEFINE R == Rounded(a + AlmostOne, 1)
<1>1. /\ Unit \in Nat \ {0} /\ Ulp \in Nat \ {0} /\ 2 * Half = Unit /\ 2 * Ulp =< Half
      /\ Half \in Nat /\ AlmostOne = Unit - Ulp /\ AlmostOne \in Nat /\ AlmostOne < Unit
  BY UnitIs
<1>2. c \in Nat /\ r \in 0..(Unit - 1) /\ a = c * Unit + r /\ c * Unit \in Nat
      /\ (c + 1) * Unit = c * Unit + Unit
  BY PartsAre DEF Parts
<1>3. j \in 0..Scales /\ TwoTo[j] \in Nat \ {0}
  BY RepresentableRoom
<1>4. (Above(c, r) = IF r = 0 THEN c ELSE c + 1) /\ 0 * Unit = 0 /\ 1 * Unit = Unit
  BY <1>1 DEF Above
<1>5. ASSUME a < Unit PROVE c = 0 /\ r = a
  <2>1. c = 0
    <3>1. SUFFICES ASSUME c # 0 PROVE FALSE
      OBVIOUS
    <3>2. (c - 1) * Unit \in Nat /\ c * Unit = (c - 1) * Unit + Unit
      BY <1>1, <1>2, <3>1
    <3> DEFINE p == c * Unit
    <3>3. p \in Nat /\ p >= Unit /\ a >= p
      BY <1>1, <1>2, <3>2
    <3> HIDE DEF p
    <3>4. QED
      BY <1>1, <1>5, <3>3
  <2>2. QED
    BY <1>2, <1>4, <2>1
<1>6. CASE a < Unit /\ 2 * a < Ulp
  <2>1. Reaches(R, 0) /\ R # 0
    BY <1>6, SmallSum
  <2>2. c = 0 /\ r = a
    BY <1>5, <1>6
  <2>3. 0 * Unit = Above(c, r) * Unit + Slip(a)
    <3>1. CASE a = 0
      <4>1. Slip(a) = 0
        BY <3>1, SlipIs
      <4>2. Above(c, r) = 0
        BY <1>4, <2>2, <3>1
      <4>3. QED
        BY <1>4, <4>1, <4>2
    <3>2. CASE a # 0
      <4>1. Slip(a) = -Unit
        BY <1>6, <2>2, <3>2, SlipIs
      <4>2. Above(c, r) = 1
        BY <1>4, <2>2, <3>2
      <4>3. QED
        BY <1>1, <1>4, <4>1, <4>2
    <3>3. QED
      BY <3>1, <3>2
  <2>4. QED
    BY <2>1, <2>3
<1>7. CASE a < Unit /\ 2 * a >= Ulp
  <2>1. Reaches(R, 1)
    BY <1>7, SmallSum
  <2>2. c = 0 /\ r = a /\ a # 0
    BY <1>1, <1>5, <1>7
  <2>3. Slip(a) = 0
    BY <1>7, <2>2, SlipIs
  <2>4. 1 * Unit = Above(c, r) * Unit + Slip(a)
    BY <1>1, <1>4, <2>2, <2>3
  <2>5. QED
    BY <2>1, <2>4, ReachesSome
<1>8. ASSUME a >= Unit PROVE a # 0 /\ 2 * a >= Ulp
  BY <1>1, <1>8
<1>9. CASE a >= Unit /\ j > UnitScale
  <2>1. /\ \E n \in Nat : a = n * Unit
        /\ R = a /\ 2 * Unit =< TwoTo[j]
    BY <1>1, <1>9, LargeSum
  <2>2. PICK n \in Nat : a = n * Unit
    BY <2>1
  <2>3. c = n /\ r = 0
    BY <2>2, PartsUnique
  <2>4. Slip(a) = 0
    <3>1. TwoTo[j] > Unit
      BY <1>1, <1>3, <2>1
    <3>2. QED
      BY <1>8, <1>9, <3>1, SlipIs
  <2>5. c * Unit = Above(c, r) * Unit + Slip(a)
    BY <1>2, <1>4, <2>3, <2>4
  <2>6. Reaches(R, c)
    <3> DEFINE p == c * Unit
    <3>1. p \in Nat /\ R = p
      BY <1>2, <2>1, <2>2, <2>3
    <3> HIDE DEF p, R
    <3>2. R \in Nat /\ p =< R /\ R < p + Unit
      BY <1>1, <3>1
    <3>3. QED
      BY <1>2, <3>2 DEF Reaches, p
  <2>7. R # 0
    BY <1>8, <1>9, <2>1
  <2>8. QED
    BY <2>5, <2>6, <2>7
<1>10. CASE a >= Unit /\ j =< UnitScale /\ r = 0
  <2>1. a = c * Unit
    BY <1>2, <1>10
  <2>2. R = (c + 1) * Unit
    BY <1>2, <1>10, <2>1, WholeSum
  <2>3. TwoTo[j] =< Unit
    <3>1. j \in 0..Top /\ UnitScale \in j..Top
      BY <1>3, <1>10, TopIs, UnitScaleIs
    <3>2. QED
      BY <3>1, PowersGrow, UnitScaleIs
  <2>4. Slip(a) = Unit
    BY <1>8, <1>10, <2>3, SlipIs
  <2>5. (c + 1) * Unit = Above(c, r) * Unit + Slip(a)
    BY <1>2, <1>4, <1>10, <2>4
  <2>6. Reaches(R, c + 1)
    <3> DEFINE p == (c + 1) * Unit
    <3>1. p \in Nat /\ R = p /\ c + 1 \in Nat
      BY <1>1, <1>2, <2>2
    <3> HIDE DEF p, R
    <3>2. R \in Nat /\ p =< R /\ R < p + Unit
      BY <1>1, <3>1
    <3>3. QED
      BY <3>1, <3>2 DEF Reaches, p
  <2>7. c + 1 # 0
    BY <1>2
  <2>8. R # 0
    BY <2>6, <2>7, ReachesSome
  <2>9. QED
    BY <2>5, <2>6, <2>8
<1>11. CASE a >= Unit /\ j =< UnitScale /\ r # 0
  <2>1. c * Unit < a /\ a < c * Unit + Unit
    <3> DEFINE p == c * Unit
    <3>1. p \in Nat /\ a = p + r
      BY <1>2
    <3> HIDE DEF p
    <3>2. p < a /\ a < p + Unit
      BY <1>1, <1>2, <1>11, <3>1
    <3>3. QED
      BY <3>2 DEF p
  <2>2. Reaches(R, c + 1)
    BY <1>2, <1>11, <2>1, BrokenSum
  <2>3. Slip(a) = 0
    BY <1>8, <1>11, SlipIs
  <2>4. (c + 1) * Unit = Above(c, r) * Unit + Slip(a)
    BY <1>1, <1>2, <1>4, <1>11, <2>3
  <2>5. c + 1 # 0
    BY <1>2
  <2>6. QED
    BY <2>2, <2>4, <2>5, ReachesSome
<1>12. QED
  BY <1>1, <1>3, <1>6, <1>7, <1>9, <1>10, <1>11, UnitScaleIs, TopIs

\* What one half makes of a number.
LEMMA HalfSum ==
    ASSUME NEW a \in Nat, a =< TwoTo[Top - 1], NEW j, NEW q, Representable(a, j, q)
    PROVE  \E n : /\ Reaches(a + Half, n) /\ Rounded(a + Half, 1) # 0
                  /\ \/ Reaches(Rounded(a + Half, 1), n)
                     \/ /\ Reaches(Rounded(a + Half, 1), n + 1)
                        /\ \/ a + TwoTo[j] = Half
                           \/ TwoTo[j] = Unit /\ a = q * Unit /\ q \in Nat /\ q % 2 = 1
<1> DEFINE R == Rounded(a + Half, 1)
<1>1. Unit \in Nat \ {0} /\ 2 * Half = Unit /\ Half \in Nat \ {0} /\ Half < Unit
  BY UnitIs
<1>2. j \in 0..Scales /\ TwoTo[j] \in Nat \ {0}
  BY RepresentableRoom
<1>3. CASE a < Half
  <2>1. \/ Reaches(R, 0) /\ R # 0
        \/ Reaches(R, 1) /\ a + TwoTo[j] = Half
    BY <1>3, HalfOfSmall
  <2>2. Reaches(a + Half, 0)
    <3>1. 0 * Unit = 0 /\ a + Half \in Nat /\ 0 =< a + Half /\ a + Half < 0 + Unit
      BY <1>1, <1>3
    <3>2. QED
      BY <3>1, Zenon DEF Reaches
  <2>3. R # 0
    <3>1. Reaches(R, 1) => R # 0
      BY ReachesSome
    <3>2. QED
      BY <2>1, <3>1
  <2>4. 0 + 1 = 1
    OBVIOUS
  <2>5. QED
    BY <2>1, <2>2, <2>3, <2>4
<1>4. CASE a >= Half /\ j < UnitScale
  <2>1. PICK n \in Nat : Reaches(a + Half, n) /\ Reaches(R, n)
    BY <1>4, HalfOfBroken
  <2>2. R # 0
    <3>1. Half =< a + Half /\ a + Half < TwoTo[Top] /\ a + Half \in Nat
      BY <1>1, SumFits
    <3>2. PICK i : ScaleIs(a + Half, i)
      BY <3>1, ScaleExists
    <3> DEFINE k == a + Half
    <3>3. i \in 0..Scales /\ (i = 0 \/ k >= TwoTo[Precision + i - 1])
      BY <3>2 DEF ScaleIs
    <3>4. TwoTo[i] =< k /\ TwoTo[i] \in Nat \ {0}
      <4>1. TwoTo[i] \in Nat \ {0}
        BY <3>3, ScalesFit
      <4>2. CASE i = 0
        <5>1. TwoTo[i] = 1 /\ k >= 1
          BY <1>1, <4>2, Powers
        <5>2. QED
          BY <5>1
      <4>3. CASE i # 0
        <5>1. i \in 0..Top /\ Precision + i - 1 \in i..Top
          BY <3>3, <4>3, TopIs
        <5>2. TwoTo[i] =< TwoTo[Precision + i - 1] /\ TwoTo[Precision + i - 1] \in Nat
          BY <5>1, PowersGrow, Powers, TopIs
        <5> HIDE DEF k
        <5>3. k \in Nat
          BY <3>1 DEF k
        <5>4. QED
          BY <3>3, <4>1, <4>3, <5>2, <5>3
      <4>4. QED
        BY <4>1, <4>2, <4>3
    <3> HIDE DEF k
    <3>5. 1 * TwoTo[i] =< k
      BY <3>1, <3>4 DEF k
    <3>6. 1 * TwoTo[i] =< Rounded(k, 1)
      BY <3>1, <3>2, <3>5, RoundedBound DEF k
    <3>7. QED
      BY <3>4, <3>6 DEF k
  <2>3. QED
    BY <2>1, <2>2
<1>5. CASE a >= Half /\ j = UnitScale
  <2>1. /\ a = q * Unit /\ q \in Nat
        /\ q % 2 = 1 => R = (q + 1) * Unit
        /\ q % 2 = 0 => R = q * Unit
    BY <1>5, HalfOfWhole
  <2> DEFINE p == q * Unit
  <2>2. p \in Nat /\ (q + 1) * Unit = p + Unit /\ q + 1 \in Nat /\ a = p
    BY <1>1, <2>1
  <2>3. Reaches(a + Half, q)
    <3> HIDE DEF p
    <3>1. a + Half \in Nat /\ p =< a + Half /\ a + Half < p + Unit
      BY <1>1, <2>2
    <3>2. QED
      BY <2>1, <3>1 DEF Reaches, p
  <2>4. CASE q % 2 = 1
    <3>1. R = p + Unit
      BY <2>1, <2>2, <2>4
    <3> HIDE DEF p, R
    <3>2. R \in Nat /\ (q + 1) * Unit =< R /\ R < (q + 1) * Unit + Unit /\ R # 0
      BY <1>1, <2>2, <3>1
    <3>3. Reaches(R, q + 1)
      BY <2>2, <3>2 DEF Reaches
    <3>4. TwoTo[j] = Unit
      BY <1>5, UnitScaleIs
    <3>5. QED
      BY <2>1, <2>3, <2>4, <3>2, <3>3, <3>4 DEF R
  <2>5. CASE q % 2 = 0
    <3>1. R = p
      BY <2>1, <2>5
    <3>2. R = a
      BY <2>2, <3>1
    <3> HIDE DEF p, R
    <3>3. R \in Nat /\ p =< R /\ R < p + Unit /\ R # 0
      BY <1>1, <1>5, <2>2, <3>1, <3>2
    <3>4. Reaches(R, q)
      BY <2>1, <3>3 DEF Reaches, p
    <3>5. QED
      BY <2>3, <3>3, <3>4 DEF R
  <2>6. QED
    BY <2>1, <2>4, <2>5
<1>6. CASE a >= Half /\ j > UnitScale
  <2>1. /\ \E n \in Nat : a = n * Unit
        /\ R = a
    BY <1>1, <1>6, LargeSum
  <2>2. PICK n \in Nat : a = n * Unit
    BY <2>1
  <2> DEFINE p == n * Unit
  <2>3. p \in Nat /\ a = p
    BY <1>1, <2>2
  <2> HIDE DEF p, R
  <2>4. a + Half \in Nat /\ p =< a + Half /\ a + Half < p + Unit /\ R \in Nat /\ p =< R /\ R < p + Unit /\ R # 0
    BY <1>1, <1>6, <2>1, <2>3
  <2>5. Reaches(a + Half, n) /\ Reaches(R, n)
    BY <2>2, <2>4 DEF Reaches, p
  <2>6. QED
    BY <2>4, <2>5 DEF R
<1>7. QED
  <2>1. UnitScale \in Nat /\ j \in Nat
    BY <1>2, UnitScaleIs, TopIs
  <2>2. QED
    BY <1>1, <1>3, <1>4, <1>5, <1>6, <2>1

LEMMA GivenIs ==
    ASSUME NEW x, Given(x)
    PROVE  /\ Magnitude(x) \in Nat /\ (x = Magnitude(x) \/ (x = -Magnitude(x) /\ Magnitude(x) > 0))
           /\ (x >= 0 => x = Magnitude(x))
           /\ \E j, q \in Nat : Representable(Magnitude(x), j, q)
<1> DEFINE a == Magnitude(x)
<1>1. x \in Int
  BY DEF Given
<1>2. a \in Nat /\ (x = a \/ (x = -a /\ a > 0)) /\ (x >= 0 => x = a) /\ (x < 0 => x = -a /\ a > 0)
  BY <1>1 DEF Magnitude
<1> HIDE DEF a
<1>3. a < TwoTo[Top]
  <2>1. a =< TwoTo[Top - 1]
    BY DEF Given, a
  <2>2. QED
    BY <1>2, <2>1, UnitIs
<1>4. Rounded(a, 1) = a
  <2>1. CASE x >= 0
    BY <1>2, <2>1 DEF Given
  <2>2. CASE x < 0
    <3>1. Rounded(-a, 1) = -Rounded(a, 1) /\ Rounded(-a, 1) = -a
      BY <1>2, <2>2, RoundedNegative DEF Given
    <3>2. \E i : ScaleIs(a, i)
      BY <1>2, <1>3, ScaleExists
    <3>3. Rounded(a, 1) \in Nat
      BY <1>2, <1>3, <3>2, RoundedBound
    <3> DEFINE R == Rounded(a, 1)
    <3>4. R \in Nat /\ -R = -a
      BY <3>1, <3>3
    <3> HIDE DEF R
    <3>5. R = a
      BY <1>2, <3>4
    <3>6. QED
      BY <3>5 DEF R
  <2>3. QED
    BY <1>1, <2>1, <2>2
<1>5. \E j, q \in Nat : Representable(a, j, q)
  BY <1>2, <1>3, <1>4, RepresentableIs
<1>6. QED
  BY <1>2, <1>5 DEF a

LEMMA CastOf ==
    ASSUME NEW x, NEW n, Reaches(x, n)
    PROVE  Cast(x) = n * Unit /\ Cast(-x) = -(n * Unit) /\ n * Unit \in Nat /\ x \div Unit = n
<1>1. x \in Nat /\ n \in Nat /\ n * Unit =< x /\ x < n * Unit + Unit
  BY DEF Reaches
<1>2. n * Unit \in Nat
  BY <1>1, UnitIs
<1>3. QED
  BY <1>1, <1>2, CastIs

LEMMA RoundsUp ==
    ASSUME NEW a \in Nat, Given(a)
    PROVE  RoundsAt(a)
<1>1. Magnitude(a) = a /\ a =< TwoTo[Top - 1] /\ ~(a < 0) /\ a >= 0
  BY DEF Magnitude, Given
<1>2. PICK j, q \in Nat : Representable(a, j, q)
  BY <1>1, GivenIs
<1>3. PICK c, r : Parts(a, c, r)
  BY PartsExist
<1>4. Unit \in Nat \ {0} /\ Unit \div 2 = Half /\ Half \in Nat \ {0}
  BY UnitIs
<1>5. /\ a \div Unit = c /\ Cast(a) = c * Unit /\ (-a) \div Unit = -Above(c, r)
      /\ Above(c, r) \in Nat /\ c \in Nat /\ c * Unit \in Nat
  BY <1>3, PartsAre DEF Parts
<1> DEFINE p == c * Unit
           v == Above(c, r) * Unit
<1>6. p \in Nat /\ v \in Nat /\ Unit * c = p /\ Unit * (-Above(c, r)) = -v
  BY <1>4, <1>5
<1>7. Spacing(a) = TwoTo[j] /\ TwoTo[j] \in Nat
  BY <1>2, SpacingIs, RepresentableRoom DEF Representable
<1>8. Floor(a) = p /\ Unit * (a \div Unit) = p
  BY <1>1, <1>5, <1>6 DEF Floor
<1>9. Ceil(a) = -(Unit * ((-a) \div Unit)) + (IF a > 0 THEN Slip(a) ELSE 0)
  <2>1. PICK n : /\ Reaches(Rounded(a + AlmostOne, 1), n)
                 /\ n * Unit = v + Slip(a)
    BY <1>1, <1>2, <1>3, AlmostSum
  <2>2. Ceil(a) = n * Unit
    BY <1>1, <2>1, CastOf DEF Ceil
  <2>3. Slip(a) = IF a > 0 THEN Slip(a) ELSE 0
    <3>1. a = 0 => Slip(a) = 0
      BY <1>2, <1>3, SlipIs
    <3>2. QED
      BY <3>1
  <2>4. -(Unit * ((-a) \div Unit)) = v
    <3>1. Unit * ((-a) \div Unit) = -v
      BY <1>5, <1>6
    <3> HIDE DEF v
    <3>2. -(-v) = v
      BY <1>6
    <3>3. QED
      BY <3>1, <3>2
  <2>5. QED
    BY <2>1, <2>2, <2>3, <2>4
<1>10. Trunc(a) = p
  BY <1>1, <1>8 DEF Trunc
<1>11. PICK n : /\ Reaches(a + Half, n) /\ Rounded(a + Half, 1) # 0
                /\ \/ Reaches(Rounded(a + Half, 1), n)
                   \/ /\ Reaches(Rounded(a + Half, 1), n + 1)
                      /\ \/ a + TwoTo[j] = Half
                         \/ TwoTo[j] = Unit /\ a = q * Unit /\ q \in Nat /\ q % 2 = 1
  BY <1>1, <1>2, HalfSum
<1> DEFINE R == Rounded(a + Half, 1)
           g == n * Unit
<1>12. n \in Nat /\ R \in Nat /\ g \in Nat /\ (n + 1) * Unit = g + Unit /\ Unit * ((a + Half) \div Unit) = g
  <2>1. n \in Nat /\ R \in Nat
    BY <1>11 DEF Reaches
  <2>2. (a + Half) \div Unit = n
    BY <1>11, CastOf
  <2>3. Unit * n = g /\ g \in Nat /\ (n + 1) * Unit = g + Unit
    BY <1>4, <2>1
  <2>4. QED
    BY <2>1, <2>2, <2>3
<1>13. Round(a) = Cast(R)
  BY <1>1, <1>4, <1>12 DEF Round, Floor
<1>14. \/ Round(a) = g
       \/ /\ Round(a) = g + Unit
          /\ \/ Magnitude(a) + Spacing(Magnitude(a)) = Half
             \/ Spacing(Magnitude(a)) = Unit /\ (a \div Unit) % 2 = 1
  <2>1. CASE Reaches(R, n)
    BY <1>13, <2>1, CastOf
  <2>2. CASE /\ Reaches(R, n + 1)
             /\ \/ a + TwoTo[j] = Half
                \/ TwoTo[j] = Unit /\ a = q * Unit /\ q \in Nat /\ q % 2 = 1
    <3>1. Round(a) = g + Unit
      BY <1>12, <1>13, <2>2, CastOf
    <3>2. CASE a + TwoTo[j] = Half
      BY <1>1, <1>7, <3>1, <3>2
    <3>3. CASE TwoTo[j] = Unit /\ a = q * Unit /\ q \in Nat /\ q % 2 = 1
      <4>1. c = q
        BY <1>3, <3>3, PartsUnique
      <4>2. QED
        BY <1>1, <1>5, <1>7, <3>1, <3>3, <4>1
    <3>4. QED
      BY <2>2, <3>2, <3>3
  <2>3. QED
    BY <1>11, <2>1, <2>2
<1>15. \/ Round(a) = g
       \/ /\ Magnitude(Round(a)) = Magnitude(g) + Unit
          /\ \/ Magnitude(a) + Spacing(Magnitude(a)) = Half
             \/ Spacing(Magnitude(a)) = Unit /\ (a \div Unit) % 2 = 1
  <2> HIDE DEF g
  <2>1. Magnitude(g) = g /\ Magnitude(g + Unit) = g + Unit
    BY <1>4, <1>12 DEF Magnitude
  <2>2. QED
    BY <1>14, <2>1
<1> HIDE DEF p, v, g, R
<1>16. Floor(a) = Unit * (a \div Unit) - 0
  BY <1>6, <1>8
<1>17. QED
  BY <1>1, <1>4, <1>8, <1>9, <1>10, <1>12, <1>15, <1>16, Zenon DEF RoundsAt

LEMMA RoundsDown ==
    ASSUME NEW a \in Nat, a > 0, Given(-a)
    PROVE  RoundsAt(-a)
<1> DEFINE x == -a
<1>1. /\ x \in Int /\ Magnitude(x) = a /\ a =< TwoTo[Top - 1] /\ x < 0 /\ ~(x >= 0) /\ ~(x > 0)
      /\ -x = a /\ Magnitude(a) = a
  <2>1. x \in Int /\ x < 0 /\ -x = a
    OBVIOUS
  <2>2. Magnitude(x) = a /\ Magnitude(a) = a
    BY <2>1 DEF Magnitude
  <2>3. QED
    BY <2>1, <2>2 DEF Given
<1>2. PICK j, q \in Nat : Representable(a, j, q)
  BY <1>1, GivenIs
<1>3. PICK c, r : Parts(a, c, r)
  BY PartsExist
<1>4. Unit \in Nat \ {0} /\ Unit \div 2 = Half /\ Half \in Nat \ {0} /\ AlmostOne \in Nat
  BY UnitIs
<1>5. /\ a \div Unit = c /\ Cast(x) = -(c * Unit) /\ x \div Unit = -Above(c, r)
      /\ Above(c, r) \in Nat /\ c \in Nat /\ c * Unit \in Nat
  BY <1>3, PartsAre DEF Parts
<1> DEFINE p == c * Unit
           v == Above(c, r) * Unit
<1>6. p \in Nat /\ v \in Nat /\ Unit * c = p /\ Unit * (-Above(c, r)) = -v
  BY <1>4, <1>5
<1>7. Spacing(a) = TwoTo[j] /\ TwoTo[j] \in Nat
  BY <1>2, SpacingIs, RepresentableRoom DEF Representable
<1>8. Floor(x) = Unit * (x \div Unit) - Slip(x)
  <2>1. PICK n : /\ Reaches(Rounded(a + AlmostOne, 1), n) /\ Rounded(a + AlmostOne, 1) # 0
                 /\ n * Unit = v + Slip(a)
    BY <1>1, <1>2, <1>3, AlmostSum
  <2>2. x - AlmostOne = -(a + AlmostOne) /\ a + AlmostOne \in Nat /\ a + AlmostOne > 0
    BY <1>4
  <2>3. Rounded(x - AlmostOne, 1) = -Rounded(a + AlmostOne, 1)
    <3> DEFINE k == a + AlmostOne
    <3>1. k \in Nat /\ k > 0
      BY <2>2
    <3> HIDE DEF k
    <3>2. Rounded(-k, 1) = -Rounded(k, 1)
      BY <3>1, RoundedNegative
    <3>3. QED
      BY <2>2, <3>2 DEF k
  <2>4. Floor(x) = -(n * Unit)
    BY <1>1, <2>1, <2>3, CastOf DEF Floor
  <2>5. Slip(x) = Slip(a) /\ Slip(a) \in Int
    <3>1. a # 0
      OBVIOUS
    <3>2. ((r # 0 \/ TwoTo[j] > Unit) /\ 2 * a >= Ulp) \/ (r = 0 /\ TwoTo[j] =< Unit) \/ (r # 0 /\ 2 * a < Ulp) \/ (r = 0 /\ TwoTo[j] > Unit)
      BY <1>4, <1>7, UnitIs
    <3>3. (r = 0 /\ TwoTo[j] > Unit) => 2 * a >= Ulp
      <4>1. SUFFICES ASSUME r = 0, TwoTo[j] > Unit PROVE 2 * a >= Ulp
        OBVIOUS
      <4>2. a = c * Unit /\ c \in Nat /\ c # 0
        BY <1>3, <1>4, <4>1 DEF Parts
      <4>3. (c - 1) * Unit \in Nat /\ a = (c - 1) * Unit + Unit
        BY <1>4, <4>2
      <4>4. QED
        BY <4>3, UnitIs
    <3>4. Unit \in Int /\ -Unit \in Int /\ 0 \in Int
      BY <1>4
    <3>5. QED
      BY <1>2, <1>3, <3>1, <3>2, <3>3, <3>4, SlipIs
  <2> HIDE DEF v, x
  <2> DEFINE g == n * Unit
  <2>6. g = v + Slip(a) /\ Floor(x) = -g
    BY <2>1, <2>4
  <2> HIDE DEF g
  <2>7. Unit * (x \div Unit) = -v
    BY <1>5, <1>6
  <2>8. QED
    BY <1>6, <2>5, <2>6, <2>7
<1>9. Ceil(x) = -p
  BY <1>1, <1>5 DEF Ceil
<1>10. Trunc(x) = -p
  BY <1>1, <1>9 DEF Trunc
<1>11. PICK n : /\ Reaches(a + Half, n) /\ Rounded(a + Half, 1) # 0
                /\ \/ Reaches(Rounded(a + Half, 1), n)
                   \/ /\ Reaches(Rounded(a + Half, 1), n + 1)
                      /\ \/ a + TwoTo[j] = Half
                         \/ TwoTo[j] = Unit /\ a = q * Unit /\ q \in Nat /\ q % 2 = 1
  BY <1>1, <1>2, HalfSum
<1> DEFINE R == Rounded(a + Half, 1)
           g == n * Unit
<1>12. n \in Nat /\ R \in Nat /\ g \in Nat /\ (n + 1) * Unit = g + Unit /\ Unit * ((Half - x) \div Unit) = g
  <2>1. n \in Nat /\ R \in Nat
    BY <1>11 DEF Reaches
  <2>2. (a + Half) \div Unit = n /\ Half - x = a + Half
    BY <1>1, <1>4, <1>11, CastOf
  <2>3. Unit * n = g /\ g \in Nat /\ (n + 1) * Unit = g + Unit
    BY <1>4, <2>1
  <2>4. QED
    BY <2>1, <2>2, <2>3
<1>13. Round(x) = Cast(-R)
  <2>1. x - Half = -(a + Half) /\ a + Half \in Nat /\ a + Half > 0
    BY <1>4
  <2>2. Rounded(x - Half, 1) = -R
    <3> DEFINE k == a + Half
    <3>1. k \in Nat /\ k > 0
      BY <2>1
    <3> HIDE DEF k
    <3>2. Rounded(-k, 1) = -Rounded(k, 1)
      BY <3>1, RoundedNegative
    <3>3. QED
      BY <2>1, <3>2 DEF k
  <2>3. ~(-R >= 0)
    <3>1. R # 0
      BY <1>11
    <3> HIDE DEF R
    <3>2. QED
      BY <1>12, <3>1
  <2> HIDE DEF R, x
  <2>4. QED
    BY <1>1, <1>4, <2>2, <2>3 DEF Round, Ceil
<1>14. \/ Round(x) = -g
       \/ /\ Round(x) = -(g + Unit)
          /\ \/ Magnitude(x) + Spacing(Magnitude(x)) = Half
             \/ Spacing(Magnitude(x)) = Unit /\ (x \div Unit) % 2 = 1
  <2>1. CASE Reaches(R, n)
    BY <1>13, <2>1, CastOf
  <2>2. CASE /\ Reaches(R, n + 1)
             /\ \/ a + TwoTo[j] = Half
                \/ TwoTo[j] = Unit /\ a = q * Unit /\ q \in Nat /\ q % 2 = 1
    <3>1. Round(x) = -(g + Unit)
      BY <1>12, <1>13, <2>2, CastOf
    <3>2. CASE a + TwoTo[j] = Half
      BY <1>1, <1>7, <3>1, <3>2
    <3>3. CASE TwoTo[j] = Unit /\ a = q * Unit /\ q \in Nat /\ q % 2 = 1
      <4>1. c = q /\ r = 0
        BY <1>3, <3>3, PartsUnique
      <4>2. x \div Unit = -q
        BY <1>5, <4>1 DEF Above
      <4>3. (-q) % 2 = 1
        BY <3>3
      <4>4. QED
        BY <1>1, <1>7, <3>1, <3>3, <4>2, <4>3
    <3>4. QED
      BY <2>2, <3>2, <3>3
  <2>3. QED
    BY <1>11, <2>1, <2>2
<1>15. \/ Round(x) = -g
       \/ /\ Magnitude(Round(x)) = Magnitude(-g) + Unit
          /\ \/ Magnitude(x) + Spacing(Magnitude(x)) = Half
             \/ Spacing(Magnitude(x)) = Unit /\ (x \div Unit) % 2 = 1
  <2> HIDE DEF g, x
  <2>1. Magnitude(-(g + Unit)) = g + Unit
    BY <1>4, <1>12 DEF Magnitude
  <2>2. Magnitude(-g) = g
    <3>1. CASE g = 0
      <4>1. -g = g
        <5>1. g \in Int /\ g >= 0 /\ g =< 0
          BY <1>12, <3>1
        <5>2. QED
          BY <5>1, MinusZero
      <4>2. QED
        BY <1>12, <4>1 DEF Magnitude
    <3>2. CASE g # 0
      BY <1>12, <3>2 DEF Magnitude
    <3>3. QED
      BY <3>1, <3>2
  <2>3. QED
    BY <1>14, <2>1, <2>2
<1>16. Unit * ((-x) \div Unit) = p
  BY <1>1, <1>5, <1>6
<1>17. Ceil(x) = -(Unit * ((-x) \div Unit)) + 0
  <2> HIDE DEF p, x
  <2>1. QED
    BY <1>6, <1>9, <1>16
<1>18. Trunc(x) = -(Unit * ((-x) \div Unit))
  BY <1>10, <1>16
<1> HIDE DEF p, v, g, R, x
<1>19. RoundsAt(x)
  BY <1>1, <1>4, <1>8, <1>12, <1>15, <1>17, <1>18, Zenon DEF RoundsAt
<1>20. QED
  BY <1>19 DEF x

\* Rounding does not take a number past the next number of the format.
LEMMA RoundedWithin ==
    ASSUME NEW x \in Int, NEW n \in Nat, n < TwoTo[Top], NEW i, NEW m, Representable(n, i, m), Magnitude(x) =< n
    PROVE  Rounded(x, 1) \in Int /\ Magnitude(Rounded(x, 1)) =< n /\ (x < 0 => Rounded(x, 1) =< 0)
<1> DEFINE a == Magnitude(x)
           R == Rounded(a, 1)
<1>1. a \in Nat /\ (x >= 0 => x = a) /\ (x < 0 => x = -a /\ a > 0)
  BY DEF Magnitude
<1> HIDE DEF a
<1>2. a =< n /\ a < TwoTo[Top]
  <2>1. a =< n
    BY DEF a
  <2>2. QED
    BY <1>1, <2>1, UnitIs
<1>3. PICK j : ScaleIs(a, j)
  BY <1>1, <1>2, ScaleExists
<1>4. j \in 0..Scales /\ i \in 0..Scales /\ j =< i /\ n = m * TwoTo[i] /\ m \in Nat
  <2>1. ScaleIs(n, i) /\ n = m * TwoTo[i] /\ m \in Nat
    BY DEF Representable
  <2>2. j =< i
    BY <1>1, <1>2, <1>3, <2>1, ScalesGrow
  <2>3. QED
    BY <1>3, <2>1, <2>2 DEF ScaleIs
<1>5. PICK c \in Nat \ {0} : TwoTo[i] = c * TwoTo[j]
  <2>1. j \in 0..Top /\ i \in j..Top
    BY <1>4, TopIs
  <2>2. QED
    BY <2>1, PowersDivide
<1> DEFINE s == TwoTo[j]
<1>6. s \in Nat /\ m * c \in Nat
  BY <1>4, <1>5, ScalesFit
<1>7. n = (m * c) * s
  <2>1. TwoTo[i] = c * s
    BY <1>5
  <2> HIDE DEF s
  <2>2. m * (c * s) = (m * c) * s
    BY <1>4, <1>5, <1>6
  <2>3. QED
    BY <1>4, <2>1, <2>2
<1>8. R \in Nat /\ R =< n
  <2>1. (m * c) * s >= a
    BY <1>1, <1>2, <1>7
  <2>2. R \in Nat /\ (m * c) * s >= R
    BY <1>1, <1>2, <1>3, <1>6, <2>1, RoundedBound
  <2>3. QED
    BY <1>7, <2>2
<1>9. Rounded(x, 1) = R \/ Rounded(x, 1) = -R
  <2>1. CASE x >= 0
    BY <1>1, <2>1
  <2>2. CASE x < 0
    BY <1>1, <2>2, RoundedNegative
  <2>3. QED
    BY <2>1, <2>2
<1>10. x < 0 => Rounded(x, 1) = -R
  BY <1>1, RoundedNegative
<1> DEFINE v == Rounded(x, 1)
<1>11. (v = R \/ v = -R) /\ (x < 0 => v = -R)
  BY <1>9, <1>10
<1> HIDE DEF v, R
<1>12. v \in Int /\ Magnitude(v) =< n /\ (x < 0 => v =< 0)
  BY <1>8, <1>11 DEF Magnitude
<1>13. QED
  BY <1>12 DEF v

LEMMA LargestIs ==
    /\ Largest \in Nat /\ Largest < TwoTo[Top]
    /\ \E i, m : Representable(Largest, i, m)
<1>1. /\ Scales \in 0..Scales /\ Scales # 0 /\ Precision + Scales - 1 = Top - 1 /\ Precision + Scales = Top
      /\ Precision - 1 \in 0..Top
  BY TopIs
<1>2. Largest \in Nat /\ Largest < TwoTo[Top]
  <2>1. Unit =< Largest /\ 2 * Largest = TwoTo[Top] /\ Largest \in Nat
    BY UnitIs DEF Largest
  <2>2. QED
    BY <2>1, UnitIs
<1>3. ScaleIs(Largest, Scales)
  <2>1. Largest >= Largest
    BY <1>2
  <2>2. QED
    BY <1>1, <1>2, <2>1 DEF ScaleIs, Largest
<1>4. Largest = TwoTo[Precision - 1] * TwoTo[Scales]
  BY <1>1, ScalesFit DEF Largest
<1>5. TwoTo[Precision - 1] \in Nat
  BY <1>1, Powers
<1>6. Representable(Largest, Scales, TwoTo[Precision - 1])
  BY <1>3, <1>4, <1>5 DEF Representable
<1>7. QED
  BY <1>2, <1>6

LEMMA PiIs ==
    /\ Pi \in Nat \ {0} /\ Pi =< Largest
    /\ \E i, m : Representable(Pi, i, m)
<1>1. Pi \in 1..Largest /\ Rounded(Pi, 1) = Pi
  <2>1. Precision + Scales - 1 = Top - 1
    BY TopIs
  <2>2. QED
    BY <2>1, PiAssumption DEF Largest
<1>2. Largest \in Nat /\ Largest < TwoTo[Top] /\ TwoTo[Top] \in Nat
  BY LargestIs, Powers, TopIs
<1>3. Pi \in Nat \ {0} /\ Pi =< Largest /\ Pi < TwoTo[Top]
  BY <1>1, <1>2
<1>4. \E i, m \in Nat : Representable(Pi, i, m)
  BY <1>1, <1>3, RepresentableIs
<1>5. QED
  BY <1>3, <1>4

LEMMA FloatsAreGiven ==
    ASSUME NEW most \in {MaxReal, MaxAngle}, NEW x \in Floats(most)
    PROVE  Given(x)
<1>1. most \in 0..Largest
  <2>1. Precision + Scales - 1 = Top - 1
    BY TopIs
  <2>2. QED
    BY <2>1, MathsAssumption DEF Largest
<1>2. x \in -most..most /\ Rounded(x, 1) = x
  BY DEF Floats
<1>3. Largest \in Nat
  BY LargestIs
<1>4. x \in Int /\ Magnitude(x) =< Largest
  BY <1>1, <1>2, <1>3 DEF Magnitude
<1>5. QED
  BY <1>2, <1>4 DEF Given, Largest

LEMMA ZeroIsGiven == Given(0)
<1>1. Precision + 0 = Precision /\ Precision \in 0..Top /\ 0 \in 0..Scales
  BY TopIs
<1>2. TwoTo[Precision] \in Nat \ {0} /\ TwoTo[0] \in Nat
  BY <1>1, Powers
<1>3. ScaleIs(0, 0)
  BY <1>1, <1>2 DEF ScaleIs
<1>4. 0 = 0 * TwoTo[0]
  BY <1>2
<1>5. Representable(0, 0, 0)
  BY <1>3, <1>4 DEF Representable
<1>6. 0 < TwoTo[Top] /\ 0 =< TwoTo[Top - 1]
  BY UnitIs
<1>7. Rounded(0, 1) = 0
  BY <1>5, <1>6, RepresentableIs
<1>8. Magnitude(0) =< TwoTo[Top - 1]
  BY <1>6 DEF Magnitude
<1>9. QED
  BY <1>7, <1>8 DEF Given

LEMMA MagnitudeBounds ==
    ASSUME NEW v \in Int, NEW n \in Nat, Magnitude(v) =< n
    PROVE  v =< n
BY DEF Magnitude

\* Up to p, the multiples of the spacing at p are numbers of the format.
LEMMA MultiplesAreExact ==
    ASSUME NEW p \in Nat, p < TwoTo[Top], NEW i, ScaleIs(p, i),
           NEW v \in Int, NEW k \in Nat, Magnitude(v) = k * TwoTo[i], Magnitude(v) =< p
    PROVE  Rounded(v, 1) = v
<1> DEFINE a == Magnitude(v)
<1>1. a \in Nat /\ a =< p /\ (v >= 0 => v = a) /\ (v < 0 => v = -a /\ a > 0)
  BY DEF Magnitude
<1>2. a = k * TwoTo[i]
  OBVIOUS
<1> HIDE DEF a
<1>3. a < TwoTo[Top]
  BY <1>1, Powers, TopIs
<1>4. PICK j : ScaleIs(a, j)
  BY <1>1, <1>3, ScaleExists
<1>5. j \in 0..Scales /\ i \in 0..Scales /\ j =< i
  <2>1. j =< i
    BY <1>1, <1>4, ScalesGrow
  <2>2. QED
    BY <1>4, <2>1 DEF ScaleIs
<1>6. PICK c \in Nat \ {0} : TwoTo[i] = c * TwoTo[j]
  <2>1. j \in 0..Top /\ i \in j..Top
    BY <1>5, TopIs
  <2>2. QED
    BY <2>1, PowersDivide
<1>7. k * c \in Nat /\ a = (k * c) * TwoTo[j] /\ j \in Nat
  <2>1. TwoTo[j] \in Nat
    BY <1>5, ScalesFit
  <2> DEFINE s == TwoTo[j]
  <2> HIDE DEF s
  <2>2. k * (c * s) = (k * c) * s
    BY <1>6, <2>1 DEF s
  <2>3. QED
    BY <1>2, <1>5, <1>6, <2>2 DEF s
<1>8. Rounded(a, 1) = a
  <2>1. Representable(a, j, k * c)
    BY <1>4, <1>7 DEF Representable
  <2>2. QED
    BY <1>1, <1>3, <1>7, <2>1, RepresentableIs
<1>9. QED
  BY <1>1, <1>8, RoundedNegative

\* The turn that takes an angle beyond pi, and not beyond 3 pi, into reach does
\* not round: both angles are multiples of the spacing at pi.
LEMMA TurnIsExact ==
    ASSUME NEW x, Given(x), Pi < Magnitude(x), Magnitude(x) =< 3 * Pi
    PROVE  Rounded(OneTurn(x), 1) = OneTurn(x)
<1> DEFINE a == Magnitude(x)
           t == a - 2 * Pi
<1>1. a \in Nat /\ (x = a \/ (x = -a /\ a > 0)) /\ Pi < a /\ a =< 3 * Pi
  BY GivenIs
<1>2. PICK j, q \in Nat : Representable(a, j, q)
  BY GivenIs
<1> HIDE DEF a
<1>3. Pi \in Nat \ {0} /\ Pi < TwoTo[Top]
  BY PiIs, LargestIs, Powers, TopIs
<1>4. PICK i, m : Representable(Pi, i, m)
  BY PiIs
<1>5. /\ j \in 0..Scales /\ i \in 0..Scales /\ i =< j /\ m \in Nat
      /\ ScaleIs(Pi, i) /\ Pi = m * TwoTo[i] /\ a = q * TwoTo[j]
  <2>1. ScaleIs(Pi, i) /\ ScaleIs(a, j) /\ m \in Nat /\ Pi = m * TwoTo[i] /\ a = q * TwoTo[j]
    BY <1>2, <1>4 DEF Representable
  <2>2. i =< j
    BY <1>1, <1>3, <2>1, ScalesGrow
  <2>3. QED
    BY <2>1, <2>2 DEF ScaleIs
<1>6. PICK c \in Nat \ {0} : TwoTo[j] = c * TwoTo[i]
  <2>1. i \in 0..Top /\ j \in i..Top
    BY <1>5, TopIs
  <2>2. QED
    BY <2>1, PowersDivide
<1> DEFINE k == q * c - 2 * m
<1>7. k \in Int /\ t = k * TwoTo[i]
  <2>1. TwoTo[i] \in Nat
    BY <1>5, ScalesFit
  <2> DEFINE s == TwoTo[i]
  <2> HIDE DEF s
  <2>2. q * (c * s) = (q * c) * s /\ (q * c - 2 * m) * s = (q * c) * s - 2 * (m * s)
    BY <1>5, <1>6, <2>1 DEF s
  <2>3. QED
    BY <1>5, <1>6, <2>2 DEF s
<1>8. t \in -Pi..Pi
  BY <1>1, <1>3
<1>9. Magnitude(t) =< Pi /\ Magnitude(t) = Magnitude(k) * TwoTo[i] /\ Magnitude(k) \in Nat
  <2>1. TwoTo[i] \in Nat \ {0}
    BY <1>5, ScalesFit
  <2> HIDE DEF k, t
  <2>2. CASE k >= 0
    <3>1. k * TwoTo[i] \in Nat
      BY <1>7, <2>1, <2>2, ProductIsNatural
    <3>2. QED
      BY <1>3, <1>7, <1>8, <2>2, <3>1 DEF Magnitude
  <2>3. CASE k < 0
    <3>1. -k \in Nat \ {0} /\ (-k) * TwoTo[i] \in Nat /\ (-k) * TwoTo[i] = -(k * TwoTo[i])
      BY <1>7, <2>1, <2>3, ProductIsNatural
    <3>2. QED
      BY <1>3, <1>7, <1>8, <2>1, <2>3, <3>1 DEF Magnitude
  <2>4. QED
    BY <1>7, <2>2, <2>3
<1>10. OneTurn(x) = t \/ OneTurn(x) = -t
  BY <1>1, <1>3 DEF OneTurn
<1> HIDE DEF k, t
<1>11. OneTurn(x) \in Int /\ Magnitude(OneTurn(x)) = Magnitude(t)
  BY <1>8, <1>10 DEF Magnitude
<1>12. QED
  BY <1>3, <1>5, <1>9, <1>11, MultiplesAreExact

\* An angle up to 3 pi is in [-pi, pi] after one turn.
LEMMA OneTurnIs ==
    ASSUME NEW x, Given(x), Magnitude(x) =< 3 * Pi
    PROVE  /\ OneTurn(x) \in -Pi..Pi
           /\ x > Pi => OneTurn(x) = Rounded(x - 2 * Pi, 1)
           /\ x < -Pi => OneTurn(x) = Rounded(x + 2 * Pi, 1)
           /\ x \in -Pi..Pi => OneTurn(x) = x
<1>1. Pi \in Nat \ {0} /\ x \in Int
  BY PiIs DEF Given
<1>2. -(3 * Pi) =< x /\ x =< 3 * Pi /\ (x > Pi \/ x < -Pi => Pi < Magnitude(x))
  BY <1>1 DEF Magnitude
<1>3. x > Pi \/ x < -Pi => Rounded(OneTurn(x), 1) = OneTurn(x)
  BY <1>2, TurnIsExact
<1>4. /\ x > Pi => OneTurn(x) = x - 2 * Pi
      /\ x < -Pi => OneTurn(x) = x + 2 * Pi
      /\ x \in -Pi..Pi => OneTurn(x) = x
  BY <1>1 DEF OneTurn
<1>5. QED
  BY <1>1, <1>2, <1>3, <1>4

LEMMA SinStep ==
    ASSUME SinInv, MathNext \/ UNCHANGED mathVars
    PROVE  SinInv'
<1>1. /\ m_given' = m_given
      /\ m_base' \in {"none", "angle"} => m_base' = m_base
      /\ m_base' = "none" => math_pc' = "done"
  <2>1. CASE PowFraction
    BY <2>1 DEF PowFraction, Exp2
  <2>2. CASE PowAtOnce \/ PowWhole \/ PowLoop
    BY <2>2 DEF SinInv, PowAtOnce, MathReturn, PowWhole, PowLoop
  <2>3. CASE SinReduce \/ SinRaise \/ UNCHANGED mathVars
    BY <2>3 DEF SinInv, SinReduce, SinRaise, mathVars
  <2>4. QED
    BY <2>1, <2>2, <2>3 DEF MathNext
<1>2. m_base' \in {"none", "angle"} => Given(m_given')
  BY <1>1 DEF SinInv
<1>3. CASE PowAtOnce \/ PowWhole \/ PowFraction \/ PowLoop
  <2>1. math_pc \in {"pow", "loop"} /\ math_pc' \in {"pow", "loop", "done"} /\ m_base' \notin {"none", "angle"}
    BY <1>3 DEF SinInv, PowAtOnce, MathReturn, PowWhole, PowFraction, PowLoop, Exp2
  <2>2. QED
    BY <2>1 DEF SinInv, ReducesRight
<1>4. Pi \in Nat \ {0} /\ Pi =< Largest /\ Largest \in Nat /\ Largest < TwoTo[Top] /\ TwoTo[Top] \in Nat
  BY PiIs, LargestIs, Powers, TopIs
<1>5. PICK i, m : Representable(Largest, i, m)
  BY LargestIs
<1>6. PICK j, n : Representable(Pi, j, n)
  BY PiIs
<1> DEFINE near == Magnitude(m_given) =< 3 * Pi
           g == OneTurn(m_given)
<1>7. (near' <=> near) /\ g' = g /\ Largest' = Largest
  BY <1>1 DEF Magnitude, OneTurn, Largest, Top
<1>8. CASE SinReduce
  <2>1. math_pc = "sin" /\ m_base = "angle" /\ m_x \in Int /\ Magnitude(m_x) =< Largest /\ m_base' = m_base
    BY <1>8 DEF SinInv, SinReduce
  <2>2. Given(m_given) /\ (near => m_x \in {m_given, g}) /\ m_x =< Largest
    BY <1>4, <2>1, MagnitudeBounds DEF SinInv
  <2>3. CASE m_x > Pi
    <3>1. m_x' = Rounded(m_x - 2 * Pi, 1) /\ math_pc' = "sin"
      BY <1>8, <2>3 DEF SinReduce
    <3>2. m_x - 2 * Pi \in Int /\ Magnitude(m_x - 2 * Pi) =< Largest
      BY <1>4, <2>1, <2>2, <2>3 DEF Magnitude
    <3>3. m_x' \in Int /\ Magnitude(m_x') =< Largest
      BY <1>4, <1>5, <3>1, <3>2, RoundedWithin
    <3>4. near => m_x' = g
      BY <1>4, <2>2, <2>3, <3>1, OneTurnIs
    <3>5. Magnitude(m_x)' = Magnitude(m_x')
      BY DEF Magnitude
    <3> HIDE DEF g, near
    <3>6. QED
      BY <1>2, <1>7, <2>1, <3>1, <3>3, <3>4, <3>5 DEF SinInv, ReducesRight, near, g
  <2>4. CASE ~(m_x > Pi)
    <3>1. m_x' = m_x /\ math_pc' = "back" /\ m_x =< Pi
      BY <1>4, <1>8, <2>1, <2>4 DEF SinReduce
    <3>2. Magnitude(m_x)' = Magnitude(m_x)
      BY <3>1 DEF Magnitude
    <3> HIDE DEF g, near
    <3>3. QED
      BY <1>1, <1>2, <1>7, <2>1, <2>2, <3>1, <3>2 DEF SinInv, ReducesRight, near, g
  <2>5. QED
    BY <2>3, <2>4
<1>9. CASE SinRaise
  <2>1. /\ math_pc = "back" /\ m_base = "angle" /\ m_x \in Int /\ Magnitude(m_x) =< Largest
        /\ m_x =< Pi /\ m_base' = m_base
    BY <1>9 DEF SinInv, SinRaise
  <2>2. Given(m_given) /\ (near => m_x \in {m_given, g})
    BY <2>1 DEF SinInv
  <2>3. CASE m_x < -Pi
    <3>1. m_x' = Rounded(m_x + 2 * Pi, 1) /\ math_pc' = "back"
      BY <1>9, <2>3 DEF SinRaise
    <3>2. m_x + 2 * Pi \in Int /\ Magnitude(m_x + 2 * Pi) =< Largest
      BY <1>4, <2>1, <2>3 DEF Magnitude
    <3>3. m_x' \in Int /\ Magnitude(m_x') =< Largest /\ (m_x + 2 * Pi < 0 => m_x' =< 0)
      BY <1>4, <1>5, <3>1, <3>2, RoundedWithin
    <3>4. m_x' =< Pi
      <4>1. CASE m_x + 2 * Pi < 0
        BY <1>4, <3>3, <4>1
      <4>2. CASE m_x + 2 * Pi >= 0
        <5>1. Magnitude(m_x + 2 * Pi) =< Pi /\ Pi < TwoTo[Top]
          BY <1>4, <2>1, <2>3, <4>2 DEF Magnitude
        <5>2. Magnitude(m_x') =< Pi
          BY <1>4, <1>6, <3>1, <3>2, <5>1, RoundedWithin
        <5>3. QED
          BY <1>4, <3>3, <5>2, MagnitudeBounds
      <4>3. QED
        BY <1>4, <2>1, <4>1, <4>2
    <3>5. near => m_x' = g
      BY <1>4, <2>2, <2>3, <3>1, OneTurnIs
    <3>6. Magnitude(m_x)' = Magnitude(m_x')
      BY DEF Magnitude
    <3> HIDE DEF g, near
    <3>7. QED
      BY <1>2, <1>7, <2>1, <3>1, <3>3, <3>4, <3>5, <3>6 DEF SinInv, ReducesRight, near, g
  <2>4. CASE ~(m_x < -Pi)
    <3>1. m_x' = m_x /\ math_pc' = "done" /\ m_x \in -Pi..Pi
      BY <1>4, <1>9, <2>1, <2>4 DEF SinRaise
    <3>2. near => m_x = g
      BY <2>2, <3>1, OneTurnIs
    <3> HIDE DEF g, near
    <3>3. (near => m_x = g)'
      BY <1>7, <3>1, <3>2
    <3>4. QED
      BY <1>2, <2>1, <3>1, <3>3 DEF SinInv, ReducesRight, near, g
  <2>5. QED
    BY <2>3, <2>4
<1>10. CASE UNCHANGED mathVars
  <2>1. math_pc' = math_pc /\ m_base' = m_base /\ m_x' = m_x
    BY <1>10 DEF mathVars
  <2>2. Magnitude(m_x)' = Magnitude(m_x)
    BY <2>1 DEF Magnitude
  <2> HIDE DEF g, near
  <2>3. QED
    BY <1>1, <1>2, <1>7, <2>1, <2>2 DEF SinInv, ReducesRight, near, g
<1>11. QED
  BY <1>3, <1>8, <1>9, <1>10 DEF MathNext

LEMMA SinInitInv ==
    ASSUME MathInit \/ MathRest
    PROVE  SinInv
<1>1. CASE MathRest
  BY <1>1, ZeroIsGiven DEF MathRest, SinInv, ReducesRight
<1>2. CASE MathInit
  <2>1. m_x = m_given
    BY <1>2 DEF MathInit
  <2>2. CASE math_pc = "pow" /\ m_base \in {"zero", "two", "other"}
    BY <2>2 DEF SinInv, ReducesRight
  <2>3. CASE \/ math_pc = "done" /\ m_base = "none" /\ m_given \in Floats(MaxReal)
             \/ math_pc = "sin" /\ m_base = "angle" /\ m_given \in Floats(MaxAngle)
    <3>1. Given(m_given)
      BY <2>3, FloatsAreGiven
    <3>2. m_x \in Int /\ Magnitude(m_x) =< Largest
      BY <2>1, <3>1 DEF Given, Largest
    <3>3. QED
      BY <2>1, <2>3, <3>1, <3>2 DEF SinInv, ReducesRight
  <2>4. QED
    BY <1>2, <2>2, <2>3 DEF MathInit
<1>3. QED
  BY <1>1, <1>2

LEMMA SinInvRight ==
    ASSUME SinInv
    PROVE  RoundsRight /\ ReducesRight
<1>1. ReducesRight
  BY DEF SinInv
<1>2. ASSUME m_base = "none" PROVE RoundsAt(m_given)
  <2>1. Given(m_given)
    BY <1>2 DEF SinInv
  <2> DEFINE a == Magnitude(m_given)
  <2>2. a \in Nat /\ (m_given = a \/ (m_given = -a /\ a > 0))
    BY <2>1, GivenIs
  <2> HIDE DEF a
  <2>3. CASE m_given = a
    BY <2>1, <2>2, <2>3, RoundsUp
  <2>4. CASE m_given = -a /\ a > 0
    BY <2>1, <2>2, <2>4, RoundsDown
  <2>5. QED
    BY <2>2, <2>3, <2>4
<1>3. RoundsRight
  BY <1>2 DEF RoundsRight
<1>4. QED
  BY <1>1, <1>3

-----------------------------------------------------------------------------
(***************************************************************************)
(* pow with an integer exponent.                                           *)
(***************************************************************************)
\* A whole exponent is as many units as its quotient says.
LEMMA WholeTimes ==
    ASSUME m_given \in Int, Whole(m_given)
    PROVE  /\ Unit \in Nat \ {0} /\ Magnitude(m_given) \div Unit \in Nat
           /\ Times \in Int
           /\ Times = IF m_given < 0 THEN -(Magnitude(m_given) \div Unit) ELSE Magnitude(m_given) \div Unit
           /\ m_given = 0 => Times = 0
           /\ m_given = Unit => Times = 1
<1>1. Unit \in Nat \ {0}
  BY UnitIs
<1> DEFINE a == Magnitude(m_given)
           q == a \div Unit
<1>2. a \in Nat
  BY DEF Magnitude
<1>3. Times = IF m_given < 0 THEN -q ELSE q
  BY DEF Times, Magnitude
<1>4. m_given >= 0 => a = m_given
  BY DEF Magnitude
<1> HIDE DEF a
<1>5. q \in Nat /\ a % Unit \in 0..(Unit - 1) /\ a = Unit * q + (a % Unit)
  BY <1>1, <1>2, DivRest
<1>6. a = 0 => q = 0
  BY <1>1
<1>7. a = Unit => q = 1
  <2>1. Unit \div Unit = 1
    BY ONLY <1>1
  <2>2. QED
    BY <2>1
<1> HIDE DEF q
<1>8. (m_given = 0 => Times = 0) /\ (m_given = Unit => Times = 1)
  BY <1>1, <1>3, <1>4, <1>6, <1>7
<1>9. Times \in Int
  BY <1>3, <1>5
<1>10. QED
  BY <1>1, <1>3, <1>5, <1>8, <1>9 DEF a, q

LEMMA PowStep ==
    ASSUME PowInv, MathNext \/ UNCHANGED mathVars
    PROVE  PowInv'
<1> SUFFICES ASSUME m_base' \in {"two", "other"}, Whole(m_given')
             PROVE  /\ m_given' \in Int
                    /\ math_pc' = "pow" => m_x' = m_given'
                    /\ math_pc' = "loop" => /\ m_n' \in Nat /\ m_b' \in Int /\ m_power' \in Int
                                            /\ m_power' + m_b' * m_n' = Times'
                    /\ math_pc' = "done" => m_power' = Times'
                    /\ math_pc' \in {"pow", "loop", "done"}
  BY DEF PowInv
<1>1. m_given' = m_given /\ Times' = Times
  BY DEF MathNext, PowAtOnce, MathReturn, PowWhole, PowFraction, PowLoop, SinReduce, SinRaise, mathVars, Times
<1>2. m_base \in {"two", "other"}
  BY DEF MathNext, PowAtOnce, MathReturn, PowWhole, PowFraction, PowLoop, SinReduce, SinRaise, mathVars
<1>3. /\ m_given \in Int /\ Whole(m_given)
      /\ math_pc = "pow" => m_x = m_given
      /\ math_pc = "loop" => m_n \in Nat /\ m_b \in Int /\ m_power \in Int /\ m_power + m_b * m_n = Times
      /\ math_pc = "done" => m_power = Times
      /\ math_pc \in {"pow", "loop", "done"}
  BY <1>1, <1>2 DEF PowInv
<1>4. /\ Unit \in Nat \ {0} /\ Magnitude(m_given) \div Unit \in Nat /\ Times \in Int
      /\ Times = IF m_given < 0 THEN -(Magnitude(m_given) \div Unit) ELSE Magnitude(m_given) \div Unit
      /\ m_given = 0 => Times = 0
      /\ m_given = Unit => Times = 1
  BY <1>3, WholeTimes
<1>5. CASE PowAtOnce
  BY <1>1, <1>2, <1>3, <1>4, <1>5 DEF PowAtOnce, MathReturn
<1>6. CASE PowWhole
  <2> DEFINE n == Magnitude(m_given) \div Unit
  <2>1. /\ m_n' = n /\ m_b' = (IF m_given < 0 THEN -1 ELSE 1) /\ m_power' = 0 /\ math_pc' = "loop"
    BY <1>3, <1>6 DEF PowWhole
  <2>2. n \in Nat /\ Times = IF m_given < 0 THEN -n ELSE n
    BY <1>4
  <2> HIDE DEF n
  <2>3. m_power' + m_b' * m_n' = Times
    BY <1>3, <2>1, <2>2
  <2>4. QED
    BY <1>1, <1>3, <2>1, <2>2, <2>3
<1>7. CASE PowFraction
  BY <1>3, <1>7 DEF PowFraction
<1>8. CASE PowLoop
  <2>1. /\ math_pc = "loop" /\ m_b' = 2 * m_b /\ m_n' = m_n \div 2
        /\ m_power' = (IF m_n % 2 = 1 THEN m_power + m_b ELSE m_power)
        /\ math_pc' = IF m_n' > 0 THEN "loop" ELSE "done"
    BY <1>8 DEF PowLoop
  <2>2. m_n' \in Nat /\ m_power' + m_b' * m_n' = Times
    <3>1. m_n \in Nat /\ m_b \in Int /\ m_power \in Int /\ m_power + m_b * m_n = Times /\ Times \in Int
      BY <1>3, <1>4, <2>1
    <3>2. BitKeeps(m_power, m_b, m_n, Times)
      BY <3>1, OneBit
    <3>3. QED
      BY <2>1, <3>2, Zenon DEF BitKeeps
  <2>3. m_b' \in Int /\ m_power' \in Int
    BY <1>3, <2>1
  <2>4. m_n' = 0 => m_power' = Times
    BY <2>2, <2>3
  <2>5. QED
    BY <1>1, <1>3, <2>1, <2>2, <2>3, <2>4
<1>9. CASE SinReduce \/ SinRaise
  BY <1>3, <1>9 DEF SinReduce, SinRaise
<1>10. CASE UNCHANGED mathVars
  BY <1>1, <1>3, <1>10 DEF mathVars
<1>11. QED
  BY <1>5, <1>6, <1>7, <1>8, <1>9, <1>10 DEF MathNext

(***************************************************************************)
(* With an integer exponent of any size and sign, the loop of pow on the   *)
(* bits of n multiplies the base, or its inverse, exactly as often as the  *)
(* exponent says.                                                          *)
(***************************************************************************)
THEOREM PowersAreRight == Spec => []PowersRight
<1>1. Init => PowInv
  <2>1. SUFFICES ASSUME MathInit \/ MathRest PROVE PowInv
    BY DEF Init
  <2>2. QED
    BY <2>1, MathsAssumption DEF MathInit, MathRest, PowInv
<1>2. PowInv /\ [Next]_vars => PowInv'
  BY PowStep DEF Next, vars
<1>3. PowInv => PowersRight
  BY DEF PowInv, PowersRight, Times
<1>4. QED
  BY <1>1, <1>2, <1>3, PTL DEF Spec

(***************************************************************************)
(* math.c in any format with at least two bits of mantissa: floor, ceil,   *)
(* trunc and round give the integer they should but for the numbers that   *)
(* Slip names and the two kinds of number that round misses, pow           *)
(* multiplies as often as an integer exponent says, and the loops of sin   *)
(* leave an angle between -pi and pi although every step rounds; up to     *)
(* 3 pi, exactly the one given or one turn from it.                        *)
(***************************************************************************)
THEOREM MathsAreRight == Spec => []MathsRight
<1>1. Init => SinInv
  BY SinInitInv DEF Init
<1>2. SinInv /\ [Next]_vars => SinInv'
  BY SinStep DEF Next, vars
<1>3. SinInv => RoundsRight /\ ReducesRight
  BY SinInvRight
<1>4. Spec => [](RoundsRight /\ ReducesRight)
  BY <1>1, <1>2, <1>3, PTL DEF Spec
<1>5. PowersRight /\ (RoundsRight /\ ReducesRight) => MathsRight
  BY DEF MathsRight
<1>6. QED
  BY <1>4, <1>5, PowersAreRight, PTL
=============================================================================
