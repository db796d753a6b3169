----------------------------- MODULE PmmProofs -----------------------------
(***************************************************************************)
(* Proofs about the physical memory manager, for every page size, every    *)
(* width of a bitmap byte and every memory map the bootloader may deliver. *)
(***************************************************************************)
EXTENDS Pmm, TLAPS

-----------------------------------------------------------------------------
(* Arithmetic of page numbers (the divisions by 4096 and by 8 in pmm.c).   *)

\* A division by a positive number, bounded from both sides.
LEMMA DivBounds ==
    ASSUME NEW n \in Nat \ {0}, NEW x \in Nat
    PROVE  /\ x \div n \in Nat
           /\ n * (x \div n) =< x
           /\ x < n * (x \div n) + n
  OBVIOUS

\* An aligned number is its page number times the page size.
LEMMA Multiple ==
    ASSUME NEW n \in Nat \ {0}, NEW x \in Nat, x % n = 0
    PROVE  x = n * (x \div n)
  OBVIOUS

\* Multiplication by a positive number keeps the order.
LEMMA Monotone ==
    ASSUME NEW n \in Nat \ {0}, NEW a \in Nat, NEW b \in Nat
    PROVE  n * a < n * b <=> a < b
  OBVIOUS

\* Dividing a multiple gives the factor back.
LEMMA DivOfProduct ==
    ASSUME NEW n \in Nat \ {0}, NEW a \in Nat
    PROVE  (n * a) \div n = a
<1> DEFINE q == (n * a) \div n
<1>1. n * a \in Nat
  OBVIOUS
<1>2. q \in Nat /\ n * q =< n * a /\ n * a < n * q + n
  BY <1>1, DivBounds
<1>3. n * a < n * (q + 1)
  BY <1>2
<1>4. a < q + 1
  BY <1>2, <1>3, Monotone
<1>5. ~(a < q)
  BY <1>2, Monotone
<1> QED BY <1>2, <1>4, <1>5

\* The first byte of the page the marking loop visits at offset j.
LEMMA VisitedPage ==
    ASSUME NEW n \in Nat \ {0}, NEW x \in Nat, NEW y \in Nat,
           x % n = 0, y % n = 0
    PROVE  /\ (x + y) \div n \in Nat
           /\ n * ((x + y) \div n) = x + y
<1> DEFINE a == x \div n
           b == y \div n
<1>1. a \in Nat /\ b \in Nat
  BY DivBounds
<1>2. x = n * a /\ y = n * b
  BY Multiple
<1> HIDE DEF a, b
<1>3. x + y = n * (a + b)
  BY <1>1, <1>2
<1>4. (x + y) \div n = a + b
  <2>1. a + b \in Nat
    BY <1>1
  <2>2. (n * (a + b)) \div n = a + b
    BY <2>1, DivOfProduct
  <2> QED BY <1>3, <2>2
<1> QED BY <1>1, <1>3, <1>4

\* The sum of two multiples of n is a multiple of n.
LEMMA AlignedSum ==
    ASSUME NEW n \in Nat \ {0}, NEW x \in Nat, NEW y \in Nat,
           x % n = 0, y % n = 0
    PROVE  (x + y) % n = 0
<1> DEFINE q == (x + y) \div n
           r == (x + y) % n
<1>1. q \in Nat /\ n * q = x + y
  BY VisitedPage
<1>2. x + y = n * q + r /\ r \in Nat
  OBVIOUS
<1> HIDE DEF q, r
<1>3. r = 0
  BY <1>1, <1>2
<1> QED BY <1>3 DEF r

\* So is the difference.
LEMMA AlignedDifference ==
    ASSUME NEW n \in Nat \ {0}, NEW x \in Nat, NEW y \in Nat, y =< x,
           x % n = 0, y % n = 0
    PROVE  (x - y) % n = 0
<1> DEFINE a == x \div n
           b == y \div n
           q == (x - y) \div n
           r == (x - y) % n
<1>1. a \in Nat /\ b \in Nat /\ x = n * a /\ y = n * b
  BY DivBounds, Multiple
<1>2. x - y \in Nat
  OBVIOUS
<1>3. x - y = n * q + r /\ r \in Nat /\ r < n /\ q \in Nat
  BY <1>2, DivBounds
<1> HIDE DEF a, b, q, r
<1>4. a - b \in Nat
  <2>1. ~(n * a < n * b)
    BY <1>1
  <2> QED BY <1>1, <2>1, Monotone
<1>5. x - y = n * (a - b)
  BY <1>1, <1>4
<1>6. q = a - b
  <2>1. (n * (a - b)) \div n = a - b
    BY <1>4, DivOfProduct
  <2> QED BY <1>5, <2>1 DEF q
<1>7. r = 0
  BY <1>3, <1>5, <1>6, <1>4
<1> QED BY <1>7 DEF r

\* The page of a byte below an aligned limit starts below that limit and the
\* page of a byte at or above it does not.
LEMMA SplitAtBoundary ==
    ASSUME NEW n \in Nat \ {0}, NEW x \in Nat, NEW limit \in Nat,
           limit % n = 0
    PROVE  x < limit <=> n * (x \div n) < limit
<1> DEFINE a == limit \div n
           q == x \div n
<1>1. a \in Nat /\ limit = n * a
  BY DivBounds, Multiple
<1>2. q \in Nat /\ n * q =< x /\ x < n * q + n
  BY DivBounds
<1> HIDE DEF a, q
<1>3. n * q < limit => q < a
  BY <1>1, <1>2, Monotone
<1>4. q < a => n * (q + 1) =< n * a
  <2>1. q < a => ~(n * a < n * (q + 1))
    BY <1>1, <1>2, Monotone
  <2> QED BY <1>1, <1>2, <2>1
<1>5. x < n * (q + 1)
  BY <1>2
<1>6. n * q < limit => x < limit
  BY <1>1, <1>2, <1>3, <1>4, <1>5
<1>7. x < limit => n * q < limit
  BY <1>2, <1>1
<1> QED BY <1>6, <1>7 DEF q

\* The byte of a bit is inside the bitmap if the bitmap has no partial byte.
LEMMA ByteInside ==
    ASSUME NEW n \in Nat \ {0}, NEW total \in Nat, total % n = 0,
           NEW i \in 0..(total - 1)
    PROVE  i \div n \in Nat /\ i \div n < total \div n
<1>1. i \in Nat /\ i < total
  OBVIOUS
<1>2. i \div n \in Nat /\ total \div n \in Nat /\ total = n * (total \div n)
  BY <1>1, DivBounds, Multiple
<1>3. n * (i \div n) < n * (total \div n)
  BY <1>1, <1>2, SplitAtBoundary
<1> QED BY <1>2, <1>3, Monotone

-----------------------------------------------------------------------------
(* The inductive invariant.                                                *)

\* Nothing is held before pmm_init, and the map is still the bootloader's.
Fresh ==
    inits = 0 => /\ total_pages = 0 /\ bitmap_phys = 0 /\ owned = {}
                 /\ map # NoMap => WellFormed(map)

\* The managed pages exist, are not page 0 and hold no part of the bitmap.
Layout ==
    Dependable => /\ Managed(map) \subseteq Pages \ {0}
                  /\ BitmapPages \cap Managed(map) = {}

\* The map that pmm_init left behind still keeps the bootloader's contract.
MapKept == Dependable => WellFormed(map)

\* The size of memory, taken from the map, is the one lines 35-36 recorded.
Measured ==
    map # NoMap /\ inits > 0 /\ ~faulted =>
        /\ \A h \in HighestAddr(map) : total_pages = h \div PageSize
        /\ bitmap_size = total_pages \div BitsPerByte

IInv == TypeOK /\ Fresh /\ Layout /\ MapKept /\ Measured /\ BitmapExact

\* The page that lines 57-60 mark free for a region whose ends are aligned.
LEMMA RegionPages ==
    ASSUME NEW r \in Region, r.base % PageSize = 0, NEW p \in PagesOf(r)
    PROVE  /\ p \in Nat
           /\ r.base =< PageSize * p
           /\ PageSize * p < r.base + r.length
<1>1. PICK j \in 0..(r.length - 1) :
          j % PageSize = 0 /\ p = (r.base + j) \div PageSize
  BY DEF PagesOf
<1>2. r.base \in Nat /\ r.length \in Nat /\ j \in Nat /\ j < r.length
  BY <1>1 DEF Region
<1>3. p \in Nat /\ PageSize * p = r.base + j
  BY <1>1, <1>2, VisitedPage, PmmAssumption
<1> QED BY <1>2, <1>3

\* A region ends behind the bitmap at its start.
LEMMA AddMonotone ==
    ASSUME NEW a \in Nat, NEW b \in Nat, NEW c \in Nat, b =< c
    PROVE  a + b =< a + c
OBVIOUS

\* A region that can hold the bitmap stays a region when it is taken out.
LEMMA ShrinkRegion ==
    ASSUME NEW r \in Region, NEW size \in Nat, size =< r.length
    PROVE  /\ Shrink(r, size) \in Region
           /\ Shrink(r, size).usable = r.usable
           /\ Shrink(r, size).base = r.base + size
           /\ Shrink(r, size).length = r.length - size
<1> DEFINE b == r.base + size
           n == r.length - size
<1>1. r.base \in Nat /\ r.length \in Nat /\ r.usable \in BOOLEAN
  BY DEF Region
<1>2. b \in Nat /\ n \in Nat
  BY <1>1
<1>3. Shrink(r, size) = [usable |-> r.usable, base |-> b, length |-> n]
  BY DEF Shrink
<1> HIDE DEF b, n
<1>4. [usable |-> r.usable, base |-> b, length |-> n] \in Region
  BY <1>1, <1>2, Zenon DEF Region
<1>5. /\ Shrink(r, size).usable = r.usable
      /\ Shrink(r, size).base = b
      /\ Shrink(r, size).length = n
  BY <1>3
<1> QED BY <1>3, <1>4, <1>5 DEF b, n

(***************************************************************************)
(* What the placement of the bitmap achieves: h is the end of the highest  *)
(* usable region of a well-formed map m and region k holds the bitmap.     *)
(***************************************************************************)
LEMMA Placement ==
    ASSUME NEW m, WellFormed(m), NEW h \in HighestAddr(m),
           NEW total, total = h \div PageSize,
           NEW size, size = total \div BitsPerByte,
           NEW k \in Fitting(m, size),
           NEW new, new = [m EXCEPT ![k] = Shrink(@, size)],
           total % BitsPerByte = 0, size % PageSize = 0
    PROVE  /\ Managed(new) \subseteq (0..(total - 1)) \ {0}
           /\ \A i \in 0..(total - 1) : PageOfBit(m[k].base, i) \notin Managed(new)
           /\ WellFormed(new)
<1> USE PmmAssumption
<1>0. m \in Seq(Region)
  BY DEF WellFormed
<1>1. \A n \in 1..Len(m) : /\ m[n] \in Region
                           /\ m[n].base \in Nat /\ m[n].length \in Nat
  <2>1. \A n \in 1..Len(m) : m[n] \in Region
    BY <1>0
  <2> QED BY <2>1 DEF Region
<1>2. k \in 1..Len(m) /\ m[k].usable /\ size =< m[k].length
  BY <1>1 DEF Fitting, UsableRegions
<1>3. h \in Nat /\ \A n \in UsableRegions(m) : Top(m[n]) =< h
  BY <1>1 DEF HighestAddr, Top, UsableRegions
<1>4. total \in Nat /\ size \in Nat
  BY <1>3, DivBounds
<1>5. /\ UsableRegions(new) = UsableRegions(m)
      /\ \A n \in UsableRegions(m) : n # k => new[n] = m[n]
      /\ new[k] \in Region
      /\ new[k].base = m[k].base + size
      /\ new[k].length = m[k].length - size
  <2>1. DOMAIN new = 1..Len(m) /\ Len(new) = Len(m)
    BY <1>0, <1>2
  <2>2. \A n \in 1..Len(m) : n # k => new[n] = m[n]
    BY <1>0, <1>2
  <2>3. new[k] = Shrink(m[k], size)
    BY <1>0, <1>2
  <2>4. /\ Shrink(m[k], size) \in Region
        /\ Shrink(m[k], size).usable = m[k].usable
        /\ Shrink(m[k], size).base = m[k].base + size
        /\ Shrink(m[k], size).length = m[k].length - size
    BY <1>1, <1>2, <1>4, ShrinkRegion
  <2> QED BY <2>1, <2>2, <2>3, <2>4, <1>2 DEF UsableRegions
<1>6. h = PageSize * total
  <2>1. PICK x \in UsableRegions(m) : h = Top(m[x])
    <3>1. k \in UsableRegions(m)
      BY <1>2 DEF UsableRegions
    <3>2. m[k].base > 0 /\ m[k].base \in Nat /\ m[k].length \in Nat
      BY <1>1, <1>2 DEF WellFormed
    <3>3. m[k].base + m[k].length =< h
      BY <3>1, <1>3 DEF Top
    <3>4. h # 0
      BY <3>2, <3>3, <1>3
    <3> QED BY <3>4 DEF HighestAddr
  <2>2. /\ m[x].base \in Nat /\ m[x].base % PageSize = 0
        /\ m[x].length \in Nat /\ m[x].length % PageSize = 0
    BY <1>1 DEF WellFormed, UsableRegions
  <2> QED BY <2>1, <2>2, VisitedPage DEF Top
<1>7. ASSUME NEW p \in Managed(new)
      PROVE  /\ p \in Nat
             /\ \E n \in UsableRegions(m) :
                   /\ m[n].base =< PageSize * p
                   /\ PageSize * p < Top(m[n])
                   /\ n = k => m[k].base + size =< PageSize * p
  <2>1. PICK n \in UsableRegions(m) : p \in PagesOf(new[n])
    BY <1>5 DEF Managed
  <2>2. /\ m[n] \in Region /\ m[n].base \in Nat /\ m[n].length \in Nat
        /\ m[n].base % PageSize = 0
    BY <1>1 DEF WellFormed, UsableRegions
  <2>3. CASE n = k
    <3>1. (m[k].base + size) % PageSize = 0
      BY <1>4, <2>2, <2>3, AlignedSum
    <3>2. /\ p \in Nat
          /\ m[k].base + size =< PageSize * p
          /\ PageSize * p < m[k].base + size + (m[k].length - size)
      BY <1>5, <2>1, <2>3, <3>1, RegionPages
    <3> QED BY <1>4, <2>2, <2>3, <3>2 DEF Top
  <2>4. CASE n # k
    <3>1. new[n] = m[n]
      BY <1>5, <2>4
    <3> QED BY <2>1, <2>2, <2>4, <3>1, RegionPages DEF Top
  <2> QED BY <2>3, <2>4
<1>8. Managed(new) \subseteq (0..(total - 1)) \ {0}
  <2> SUFFICES ASSUME NEW p \in Managed(new)
               PROVE  p \in (0..(total - 1)) \ {0}
    OBVIOUS
  <2>1. PICK n \in UsableRegions(m) :
            m[n].base =< PageSize * p /\ PageSize * p < Top(m[n])
    BY <1>7
  <2>2. p \in Nat
    BY <1>7
  <2>3. PageSize * p < PageSize * total
    BY <1>1, <1>3, <1>6, <2>1, <2>2 DEF Top, UsableRegions
  <2>4. m[n].base > 0 /\ m[n].base \in Nat
    BY <1>1 DEF WellFormed, UsableRegions
  <2>5. p # 0
    BY <2>1, <2>2, <2>4
  <2>6. p < total
    BY <1>4, <2>2, <2>3, Monotone
  <2> QED BY <1>4, <2>2, <2>5, <2>6
<1>9. ASSUME NEW i \in 0..(total - 1)
      PROVE  PageOfBit(m[k].base, i) \notin Managed(new)
  <2> DEFINE x == m[k].base + i \div BitsPerByte
  <2>1. m[k].base \in Nat /\ m[k].length \in Nat /\ m[k].base % PageSize = 0
    BY <1>1, <1>2 DEF WellFormed
  <2>2. x \in Nat /\ m[k].base =< x /\ x < m[k].base + size
    BY <1>4, <1>9, <2>1, ByteInside
  <2> HIDE DEF x
  <2>3. (m[k].base + size) % PageSize = 0
    BY <1>4, <2>1, AlignedSum
  <2> DEFINE y == PageSize * (x \div PageSize)
  <2>4. y < m[k].base + size
    <3>1. m[k].base + size \in Nat
      BY <1>4, <2>1
    <3> QED BY <3>1, <2>2, <2>3, SplitAtBoundary
  <2>5. ~(y < m[k].base)
    <3>1. ~(x < m[k].base)
      BY <2>1, <2>2
    <3> QED BY <3>1, <2>1, <2>2, SplitAtBoundary
  <2>6. SUFFICES ASSUME x \div PageSize \in Managed(new) PROVE FALSE
    BY DEF PageOfBit, x
  <2>7. PICK n \in UsableRegions(m) :
            /\ m[n].base =< y
            /\ y < Top(m[n])
            /\ n = k => m[k].base + size =< y
    BY <1>7, <2>6
  <2>8. y \in Nat
    BY <2>2, DivBounds
  <2> HIDE DEF y
  <2>9. n # k
    BY <1>4, <2>1, <2>4, <2>7, <2>8
  <2>10. \/ m[k].base + m[k].length =< m[n].base
         \/ m[n].base + m[n].length =< m[k].base
    BY <1>2, <2>9 DEF WellFormed, UsableRegions
  <2>11. m[n].base \in Nat /\ m[n].length \in Nat
    BY <1>1 DEF UsableRegions
  <2>12. y < m[n].base + m[n].length
    BY <2>7 DEF Top
  <2>13. CASE m[k].base + m[k].length =< m[n].base
    <3>1. m[k].base + size =< m[k].base + m[k].length
      BY <1>2, <1>4, <2>1, AddMonotone, Zenon
    <3> QED BY <1>4, <2>1, <2>4, <2>7, <2>8, <2>11, <2>13, <3>1
  <2>14. CASE m[n].base + m[n].length =< m[k].base
    BY <2>1, <2>5, <2>8, <2>11, <2>12, <2>14
  <2> QED BY <2>10, <2>13, <2>14
<1>10. WellFormed(new)
  <2>1. new \in Seq(Region) /\ Len(new) = Len(m)
    BY <1>0, <1>2, <1>5
  <2>2. m[k].base > 0 /\ m[k].base % PageSize = 0 /\ m[k].length % PageSize = 0
    BY <1>2 DEF WellFormed
  <2>3. m[k].base \in Nat /\ m[k].length \in Nat
    BY <1>1, <1>2
  <2>4. (m[k].base + size) % PageSize = 0 /\ m[k].base + size > 0
    BY <1>4, <2>2, <2>3, AlignedSum
  <2>5. (m[k].length - size) % PageSize = 0
    BY <1>2, <1>4, <2>2, <2>3, AlignedDifference
  <2>6. ASSUME NEW n \in UsableRegions(m)
        PROVE  /\ new[n].base > 0
               /\ new[n].base % PageSize = 0
               /\ new[n].length % PageSize = 0
    <3>1. CASE n = k
      BY <1>5, <2>4, <2>5, <3>1
    <3>2. CASE n # k
      BY <1>5, <3>2 DEF WellFormed, UsableRegions
    <3> QED BY <3>1, <3>2
  <2>7. ASSUME NEW n \in UsableRegions(m)
        PROVE  /\ m[n].base \in Nat /\ m[n].length \in Nat
               /\ m[n].base =< new[n].base
               /\ new[n].base + new[n].length = m[n].base + m[n].length
    <3>1. m[n].base \in Nat /\ m[n].length \in Nat
      BY <1>1 DEF UsableRegions
    <3>2. CASE n = k
      BY <1>4, <1>5, <3>1, <3>2
    <3>3. CASE n # k
      BY <1>5, <3>1, <3>3
    <3> QED BY <3>1, <3>2, <3>3
  <2>8. ASSUME NEW n \in UsableRegions(m), NEW o \in UsableRegions(m), n # o
        PROVE  \/ new[n].base + new[n].length =< new[o].base
               \/ new[o].base + new[o].length =< new[n].base
    <3>1. \/ m[n].base + m[n].length =< m[o].base
          \/ m[o].base + m[o].length =< m[n].base
      BY <2>8 DEF WellFormed, UsableRegions
    <3>2. new[n].base \in Nat /\ new[o].base \in Nat
      BY <1>1, <1>4, <1>5 DEF UsableRegions
    <3> QED BY <2>7, <3>1, <3>2
  <2>9. \A n \in 1..Len(new) : new[n].usable => n \in UsableRegions(m)
    BY <1>5 DEF UsableRegions
  <2> QED BY <2>1, <2>6, <2>8, <2>9 DEF WellFormed
<1> QED BY <1>8, <1>9, <1>10

\* The state at boot satisfies the invariant.
LEMMA InitIInv == Init => IInv
<1> SUFFICES ASSUME Init PROVE IInv
  OBVIOUS
<1> USE PmmAssumption
<1>1. TypeOK
  <2>1. map = NoMap \/ map \in Seq(Region)
    BY DEF Init, WellFormed
  <2>2. bit \in Bits(total_pages)
    BY DEF Init
  <2>3. stale \in BOOLEAN /\ faulted \in BOOLEAN /\ owned \subseteq Nat
    BY Zenon DEF Init
  <2>4. /\ total_pages \in Nat /\ bitmap_phys \in Nat /\ bitmap_size \in Nat
        /\ returned \in Nat /\ inits \in 0..MaxInits
    BY DEF Init
  <2> QED BY <2>1, <2>2, <2>3, <2>4 DEF TypeOK
<1>2. Fresh
  BY DEF Init, Fresh
<1>3. ~Dependable
  BY DEF Init, Dependable
<1>4. Measured
  BY DEF Init, Measured
<1> QED BY <1>1, <1>2, <1>3, <1>4 DEF IInv, Layout, MapKept, BitmapExact

\* The state that no action but pmm_init touches.
Geometry ==
    <<map, total_pages, bitmap_phys, bitmap_size, inits, stale, faulted>>

\* Steps that leave map and bitmap where they are keep what depends on them.
LEMMA GeometryKept ==
    ASSUME IInv, UNCHANGED Geometry
    PROVE  /\ Dependable' = Dependable
           /\ Layout' /\ MapKept' /\ Measured'
           /\ Managed(map)' = Managed(map)
           /\ Pages' = Pages
<1>1. /\ map' = map /\ total_pages' = total_pages /\ bitmap_phys' = bitmap_phys
      /\ bitmap_size' = bitmap_size /\ inits' = inits /\ faulted' = faulted
      /\ stale' = stale
  BY DEF Geometry
<1>2. Dependable' = Dependable /\ Pages' = Pages
  BY <1>1 DEF Dependable, WholeBitmap, Pages
<1>3. Managed(map)' = Managed(map)
  BY <1>1
<1>4. BitmapPages' = BitmapPages
  BY <1>1, <1>2 DEF BitmapPages
<1>5. Layout'
  BY <1>2, <1>3, <1>4 DEF IInv, Layout
<1>6. MapKept' /\ Measured'
  BY <1>1, <1>2 DEF IInv, MapKept, Measured
<1> QED BY <1>2, <1>3, <1>5, <1>6

\* There is only one highest address.
LEMMA OneHighest ==
    ASSUME NEW m \in Seq(Region), NEW g \in HighestAddr(m),
           NEW h \in HighestAddr(m)
    PROVE  g = h /\ g \in Nat
<1>1. \A k \in UsableRegions(m) : Top(m[k]) \in Nat
  <2>1. \A k \in UsableRegions(m) : m[k] \in Region
    BY DEF UsableRegions
  <2> QED BY <2>1 DEF Region, Top
<1>2. g \in Nat /\ h \in Nat
  BY <1>1 DEF HighestAddr
<1>3. g =< h /\ h =< g
  BY <1>1, <1>2 DEF HighestAddr
<1> QED BY <1>2, <1>3

\* Taking the bitmap from the start of a region keeps every region's end.
LEMMA HighestKept ==
    ASSUME NEW m \in Seq(Region), NEW size \in Nat, NEW k \in Fitting(m, size),
           NEW new, new = [m EXCEPT ![k] = Shrink(@, size)]
    PROVE  HighestAddr(new) = HighestAddr(m)
<1>1. k \in 1..Len(m) /\ m[k] \in Region /\ size =< m[k].length
  BY DEF Fitting, UsableRegions
<1>2. m[k].base \in Nat /\ m[k].length \in Nat
  BY <1>1 DEF Region
<1>3. /\ Shrink(m[k], size).usable = m[k].usable
      /\ Shrink(m[k], size).base = m[k].base + size
      /\ Shrink(m[k], size).length = m[k].length - size
  BY <1>1, ShrinkRegion
<1>4. Top(Shrink(m[k], size)) = Top(m[k])
  BY <1>2, <1>3 DEF Top
<1>5. /\ Len(new) = Len(m)
      /\ new[k] = Shrink(m[k], size)
      /\ \A n \in 1..Len(m) : n # k => new[n] = m[n]
  BY <1>1
<1>6. /\ UsableRegions(new) = UsableRegions(m)
      /\ \A n \in UsableRegions(m) : Top(new[n]) = Top(m[n])
  BY <1>3, <1>4, <1>5 DEF UsableRegions
<1> QED BY <1>6 DEF HighestAddr

\* Lines 23-36 compute natural numbers.
LEMMA MeasureType ==
    ASSUME map \in Seq(Region), Measure
    PROVE  /\ total_pages' \in Nat
           /\ bitmap_size' \in Nat
<1>1. PICK h \in HighestAddr(map) : total_pages' = h \div PageSize
  BY DEF Measure
<1>2. \A k \in UsableRegions(map) : Top(map[k]) \in Nat
  <2>1. \A k \in UsableRegions(map) : map[k] \in Region
    BY DEF UsableRegions
  <2> QED BY <2>1 DEF Region, Top
<1>3. h \in Nat
  BY <1>2 DEF HighestAddr
<1>4. total_pages' \in Nat
  BY <1>1, <1>3, DivBounds, PmmAssumption
<1> QED BY <1>4, DivBounds, PmmAssumption DEF Measure

\* Taking the bitmap out of a region that can hold it leaves a region.
LEMMA PlaceType ==
    ASSUME map \in Seq(Region), bitmap_size' \in Nat,
           NEW k \in FirstFit(map, bitmap_size'), PlaceBitmap(k)
    PROVE  map' \in Seq(Region) /\ bitmap_phys' \in Nat
<1>1. k \in 1..Len(map) /\ bitmap_size' =< map[k].length
  BY DEF FirstFit, Fitting, UsableRegions
<1>2. map[k] \in Region
  BY <1>1
<1>3. map[k].base \in Nat /\ map[k].length \in Nat /\ map[k].usable \in BOOLEAN
  BY <1>2 DEF Region
<1>4. Shrink(map[k], bitmap_size') \in Region
  BY <1>1, <1>2, ShrinkRegion
<1>5. map' = [map EXCEPT ![k] = Shrink(map[k], bitmap_size')]
  BY DEF PlaceBitmap
<1>6. map' \in Seq(Region)
  BY <1>1, <1>4, <1>5
<1> QED BY <1>3, <1>6 DEF PlaceBitmap

\* pmm_init establishes the invariant.
LEMMA PmmInitStep == IInv /\ PmmInit => IInv'
<1> SUFFICES ASSUME IInv, PmmInit PROVE IInv'
  OBVIOUS
<1> USE PmmAssumption
<1>1. map # NoMap /\ map \in Seq(Region) /\ inits \in Nat
  BY DEF IInv, TypeOK, PmmInit
<1>2. total_pages' \in Nat /\ bitmap_size' \in Nat
  BY <1>1, MeasureType DEF PmmInit
<1>3. map' \in Seq(Region) /\ bitmap_phys' \in Nat
  BY <1>1, <1>2, PlaceType DEF PmmInit, IInv, TypeOK
<1>4. bit' \in Bits(total_pages)'
  BY DEF PmmInit, MarkedBits
<1>5. TypeOK'
  <2>1. inits' \in 0..MaxInits
    BY <1>1 DEF PmmInit
  <2> QED BY <1>2, <1>3, <1>4, <2>1 DEF PmmInit, IInv, TypeOK
<1>6. Fresh'
  BY <1>1 DEF PmmInit, Fresh
<1>9. Measured'
  <2>1. PICK h \in HighestAddr(map) : total_pages' = h \div PageSize
    BY DEF PmmInit, Measure
  <2>2. \A g \in HighestAddr(map) : total_pages' = g \div PageSize
    BY <1>1, <2>1, OneHighest
  <2>3. HighestAddr(map') = HighestAddr(map)
    <3>1. ASSUME NEW k \in FirstFit(map, bitmap_size'), PlaceBitmap(k)
          PROVE  HighestAddr(map') = HighestAddr(map)
      <4>1. k \in Fitting(map, bitmap_size')
        BY DEF FirstFit
      <4>2. map' = [map EXCEPT ![k] = Shrink(@, bitmap_size')]
        BY <3>1 DEF PlaceBitmap
      <4> QED BY <1>1, <1>2, <4>1, <4>2, HighestKept
    <3> QED BY <3>1 DEF PmmInit
  <2> QED BY <2>2, <2>3 DEF Measured, PmmInit, Measure
<1>7. Dependable' => Layout' /\ MapKept' /\ BitmapExact'
  <2> SUFFICES ASSUME Dependable' PROVE Layout' /\ MapKept' /\ BitmapExact'
    OBVIOUS
  <2>2. (total_pages % BitsPerByte = 0)' /\ (bitmap_size % PageSize = 0)'
    BY DEF Dependable, WholeBitmap
  <2>3. PICK h \in HighestAddr(map) : total_pages' = h \div PageSize
    BY DEF PmmInit, Measure
  <2>4. bitmap_size' = total_pages' \div BitsPerByte
    BY DEF PmmInit, Measure
  <2>8. inits > 0 => /\ Dependable
                     /\ total_pages' = total_pages /\ bitmap_size' = bitmap_size
    <3> SUFFICES ASSUME inits > 0
                 PROVE  /\ Dependable
                        /\ total_pages' = total_pages
                        /\ bitmap_size' = bitmap_size
      OBVIOUS
    <3>1. total_pages' = total_pages /\ bitmap_size' = bitmap_size
      BY <1>1, <2>3, <2>4 DEF IInv, Measured, PmmInit
    <3>2. ~stale /\ ~faulted
      BY DEF Dependable, PmmInit, IInv, TypeOK
    <3> QED BY <1>1, <2>2, <3>1, <3>2 DEF Dependable, WholeBitmap
  <2>1. WellFormed(map) /\ owned = {} /\ owned' = {}
    <3>1. owned = {} /\ owned' = {}
      BY DEF Dependable, PmmInit
    <3>2. CASE inits = 0
      BY <1>1, <3>1, <3>2 DEF IInv, Fresh
    <3>3. CASE inits > 0
      BY <2>8, <3>1, <3>3 DEF IInv, MapKept
    <3> QED BY <1>1, <3>2, <3>3
  <2>5. /\ Managed(map') \subseteq (0..(total_pages' - 1)) \ {0}
        /\ \A i \in 0..(total_pages' - 1) :
              PageOfBit(bitmap_phys', i) \notin Managed(map')
        /\ WellFormed(map')
    <3>1. CASE \E k \in FirstFit(map, bitmap_size') : PlaceBitmap(k)
      <4>1. PICK k \in FirstFit(map, bitmap_size') : PlaceBitmap(k)
        BY <3>1
      <4>2. k \in Fitting(map, bitmap_size')
        BY DEF FirstFit
      <4>3. /\ map' = [map EXCEPT ![k] = Shrink(@, bitmap_size')]
            /\ bitmap_phys' = map[k].base
        BY <4>1 DEF PlaceBitmap
      <4> QED BY <2>1, <2>2, <2>3, <2>4, <4>2, <4>3, Placement
    <3>2. CASE /\ Fitting(map, bitmap_size') = {}
               /\ bitmap_phys = 0 => bitmap_size' = 0
               /\ UNCHANGED <<map, bitmap_phys>>
      <4>0. CASE inits = 0
        <5>1. bitmap_size' = 0
          BY <4>0, <3>2 DEF IInv, Fresh
        <5>2. \A k \in UsableRegions(map) : map[k].length >= 0
          <6>1. \A k \in UsableRegions(map) : map[k] \in Region
            BY <1>1 DEF UsableRegions
          <6> QED BY <6>1 DEF Region
        <5>3. UsableRegions(map) = {}
          BY <3>2, <5>1, <5>2 DEF Fitting
        <5>4. Managed(map') = {}
          BY <3>2, <5>3 DEF Managed
        <5> QED BY <2>1, <3>2, <5>4
      <4>1. CASE inits > 0
        <5>1. Layout /\ Dependable /\ total_pages' = total_pages
          BY <2>8, <4>1 DEF IInv
        <5>2. /\ Managed(map) \subseteq (0..(total_pages - 1)) \ {0}
              /\ \A i \in 0..(total_pages - 1) :
                    PageOfBit(bitmap_phys, i) \notin Managed(map)
          BY <5>1 DEF Layout, BitmapPages, Pages
        <5> QED BY <2>1, <3>2, <5>1, <5>2
      <4> QED BY <1>1, <4>0, <4>1
    <3> QED BY <3>1, <3>2 DEF PmmInit
  <2>6. Layout' /\ MapKept'
    BY <2>5 DEF Layout, MapKept, BitmapPages, Pages
  <2>7. BitmapExact'
    <3>1. bit' \in MarkedBits(map', total_pages', bitmap_size')
      BY DEF PmmInit
    <3>2. total_pages' = BitsPerByte * bitmap_size'
      <4> DEFINE t == total_pages'
      <4>1. t \in Nat /\ t % BitsPerByte = 0 /\ bitmap_size' = t \div BitsPerByte
        BY <1>2, <2>2, <2>4
      <4> HIDE DEF t
      <4>2. t = BitsPerByte * (t \div BitsPerByte)
        BY <4>1, Multiple
      <4> QED BY <4>1, <4>2 DEF t
    <3>3. total_pages' = bitmap_size' * BitsPerByte
      BY <1>2, <3>2
    <3>4. \A i \in 0..(total_pages' - 1) :
              IF i \in Managed(map') THEN bit'[i] = 0 ELSE bit'[i] = 1
      <4>1. \A i \in 0..(total_pages' - 1) :
                IF i \in Managed(map') THEN bit'[i] = 0
                ELSE i < bitmap_size' * BitsPerByte => bit'[i] = 1
        BY <3>1, Zenon DEF MarkedBits
      <4>2. \A i \in 0..(total_pages' - 1) : i < bitmap_size' * BitsPerByte
        <5> DEFINE t == total_pages'
        <5>1. t \in Nat
          BY <1>2
        <5> HIDE DEF t
        <5>2. \A i \in 0..(t - 1) : i < t
          BY <5>1
        <5>3. \A i \in 0..(total_pages' - 1) : i < total_pages'
          BY <5>2 DEF t
        <5> QED BY <5>3, <3>3, Zenon
      <4> QED BY <4>1, <4>2, Zenon
    <3> QED BY <2>1, <3>4 DEF BitmapExact, Pages
  <2> QED BY <2>6, <2>7
<1>8. ~Dependable' => Layout' /\ MapKept' /\ BitmapExact'
  BY DEF Layout, MapKept, BitmapExact
<1> QED BY <1>5, <1>6, <1>7, <1>8, <1>9 DEF IInv

\* Writing a page that holds no bits of the bitmap changes no bit.
LEMMA OwnerWritesStep ==
    ASSUME IInv, NEW p \in owned, OwnerWrites(p) PROVE IInv'
<1>1. UNCHANGED Geometry /\ owned' = owned
  BY DEF OwnerWrites, Geometry
<1>2. TypeOK' /\ Fresh'
  BY <1>1 DEF IInv, TypeOK, Fresh, OwnerWrites
<1>3. BitmapExact'
  <2> SUFFICES ASSUME Dependable PROVE BitmapExact'
    BY <1>1, GeometryKept DEF BitmapExact
  <2>1. p \in Managed(map) /\ p \notin BitmapPages
    BY DEF IInv, Layout, BitmapExact
  <2>2. \A i \in Pages : bit'[i] = bit[i]
    BY <2>1 DEF OwnerWrites, BitmapPages
  <2> QED BY <1>1, <2>2, GeometryKept DEF IInv, BitmapExact
<1> QED BY <1>1, <1>2, <1>3, GeometryKept DEF IInv

\* pmm_alloc_page preserves the invariant.
LEMMA AllocStep == IInv /\ AllocPage => IInv'
<1> SUFFICES ASSUME IInv, AllocPage PROVE IInv'
  OBVIOUS
<1>1. UNCHANGED Geometry
  BY DEF AllocPage, Geometry
<1>2. PICK i \in Pages : /\ bit[i] = 0
                         /\ bit' = [bit EXCEPT ![i] = 1]
                         /\ returned' = i * PageSize
                         /\ owned' = owned \cup {i}
  BY DEF AllocPage
<1>3. total_pages \in Nat /\ i \in Nat /\ bit \in Bits(total_pages)
  BY DEF IInv, TypeOK, Pages
<1>4. bit' \in Bits(total_pages)
  BY <1>2, <1>3 DEF Bits, Pages
<1>5. returned' \in Nat
  BY <1>2, <1>3, PmmAssumption
<1>6. TypeOK' /\ Fresh'
  <2>1. inits # 0
    BY <1>3 DEF IInv, Fresh, Pages
  <2> QED BY <1>1, <1>2, <1>3, <1>4, <1>5, <2>1 DEF IInv, TypeOK, Fresh, Geometry
<1>7. BitmapExact'
  <2> SUFFICES ASSUME Dependable PROVE BitmapExact'
    BY <1>1, GeometryKept DEF BitmapExact
  <2>1. i \in Managed(map) \ owned
    BY <1>2 DEF IInv, BitmapExact
  <2>2. \A n \in Pages : bit'[n] = IF n = i THEN 1 ELSE bit[n]
    BY <1>2, <1>3 DEF Bits, Pages
  <2> QED BY <1>1, <1>2, <2>1, <2>2, GeometryKept DEF IInv, BitmapExact
<1> QED BY <1>1, <1>6, <1>7, GeometryKept DEF IInv

\* pmm_free_page preserves the invariant, repeated frees included.
LEMMA FreeStep ==
    ASSUME IInv, NEW addr \in FreeAddrs, FreePage(addr) PROVE IInv'
<1> DEFINE p == addr \div PageSize
<1>1. UNCHANGED Geometry /\ owned' = owned \ {p} /\ returned' = returned
  BY DEF FreePage, Geometry
<1>2. p \in Nat /\ total_pages \in Nat /\ bit \in Bits(total_pages)
  BY DivBounds, PmmAssumption DEF IInv, TypeOK
<1>3. bit' = IF p < total_pages THEN [bit EXCEPT ![p] = 0] ELSE bit
  BY DEF FreePage
<1>4. p \in Pages => p \in owned \/ bit[p] = 0
  BY DEF FreePage
<1> HIDE DEF p
<1>5. bit' \in Bits(total_pages)
  BY <1>2, <1>3 DEF Bits
<1>6. TypeOK' /\ Fresh'
  BY <1>1, <1>5 DEF IInv, TypeOK, Fresh, Geometry
<1>7. BitmapExact'
  <2> SUFFICES ASSUME Dependable PROVE BitmapExact'
    BY <1>1, GeometryKept DEF BitmapExact
  <2>1. \A n \in Pages : bit'[n] = IF n = p THEN 0 ELSE bit[n]
    BY <1>2, <1>3 DEF Bits, Pages
  <2>2. p \in Pages => p \in Managed(map)
    BY <1>4 DEF IInv, BitmapExact
  <2> QED BY <1>1, <2>1, <2>2, GeometryKept DEF IInv, BitmapExact
<1> QED BY <1>1, <1>6, <1>7, GeometryKept DEF IInv

\* Every step preserves the invariant.
LEMMA StepIInv == IInv /\ [Next]_vars => IInv'
<1> SUFFICES ASSUME IInv, [Next]_vars PROVE IInv'
  OBVIOUS
<1>1. CASE PmmInitNoResponse
  <2>1. ~Dependable' /\ inits' # 0 /\ inits' \in 0..MaxInits
    BY <1>1, PmmAssumption DEF PmmInitNoResponse, Dependable, IInv, TypeOK
  <2> QED BY <1>1, <2>1
          DEF PmmInitNoResponse, IInv, TypeOK, Fresh, Layout, MapKept,
              Measured, BitmapExact
<1>2. CASE PmmInit
  BY <1>2, PmmInitStep
<1>3. CASE PmmInitFault
  <2>1. ~Dependable' /\ inits' # 0 /\ inits' \in 0..MaxInits
    BY <1>3, PmmAssumption DEF PmmInitFault, Dependable, IInv, TypeOK
  <2>2. total_pages' \in Nat /\ bitmap_size' \in Nat
    BY <1>3, MeasureType DEF PmmInitFault, IInv, TypeOK
  <2>3. TypeOK'
    BY <1>3, <2>1, <2>2 DEF PmmInitFault, IInv, TypeOK
  <2>4. Measured'
    BY <1>3 DEF PmmInitFault, Measured
  <2> QED BY <2>1, <2>3, <2>4 DEF IInv, Fresh, Layout, MapKept, BitmapExact
<1>4. CASE AllocPage
  BY <1>4, AllocStep
<1>5. CASE AllocFails
  <2>1. UNCHANGED Geometry /\ bit' = bit /\ owned' = owned /\ returned' = 0
    BY <1>5 DEF AllocFails, Geometry
  <2>2. TypeOK' /\ Fresh'
    BY <2>1 DEF IInv, TypeOK, Fresh, Geometry
  <2>3. BitmapExact'
    BY <2>1, GeometryKept DEF IInv, BitmapExact
  <2> QED BY <2>1, <2>2, <2>3, GeometryKept DEF IInv
<1>6. ASSUME NEW addr \in FreeAddrs, FreePage(addr) PROVE IInv'
  BY <1>6, FreeStep
<1>7. ASSUME NEW p \in owned, OwnerWrites(p) PROVE IInv'
  BY <1>7, OwnerWritesStep
<1>8. CASE UNCHANGED vars
  BY <1>8 DEF vars, IInv, TypeOK, Fresh, Layout, BitmapExact, Dependable,
              WholeBitmap, Pages, BitmapPages, MapKept, Measured
<1> QED BY <1>1, <1>2, <1>3, <1>4, <1>5, <1>6, <1>7, <1>8 DEF Next, MemoryInit

-----------------------------------------------------------------------------
(* The theorems.                                                           *)

\* The inductive invariant holds in every reachable state.
THEOREM Invariance == Spec => []IInv
<1>1. Init => IInv
  BY InitIInv
<1>2. IInv /\ [Next]_vars => IInv'
  BY StepIInv
<1> QED BY <1>1, <1>2, PTL DEF Spec

\* The state of pmm.c stays well typed on every memory map.
THEOREM TypeCorrect == Spec => []TypeOK
<1>1. IInv => TypeOK
  BY DEF IInv
<1> QED BY <1>1, Invariance, PTL

\* The bitmap is exact whenever it fills whole pages.
THEOREM Exactness == Spec => []BitmapExact
<1>1. IInv => BitmapExact
  BY DEF IInv
<1> QED BY <1>1, Invariance, PTL

\* No caller of pmm_alloc_page ever holds a page of such a bitmap.
THEOREM Protection == Spec => []BitmapProtected
<1>1. IInv => BitmapProtected
  BY DEF IInv, Layout, BitmapExact, BitmapProtected
<1> QED BY <1>1, Invariance, PTL

\* pmm_alloc_page hands out only pages nobody holds, and fails only when all
\* managed pages are held.
THEOREM AllocationSound == Spec => AllocSound
<1> DEFINE Sound ==
      (AllocPage \/ AllocFails) /\ Dependable =>
          IF returned' = 0 THEN Managed(map) \subseteq owned
                           ELSE returned' \div PageSize \notin owned
<1>1. IInv /\ [Next]_vars => [Sound]_vars
  <2> SUFFICES ASSUME IInv, AllocPage \/ AllocFails, Dependable
               PROVE  IF returned' = 0 THEN Managed(map) \subseteq owned
                                       ELSE returned' \div PageSize \notin owned
    OBVIOUS
  <2>1. CASE AllocPage
    <3>1. PICK i \in Pages : bit[i] = 0 /\ returned' = i * PageSize
      BY <2>1 DEF AllocPage
    <3>2. i \in Managed(map) \ owned /\ i # 0
      BY <3>1 DEF IInv, Layout, BitmapExact
    <3>3. i \in Nat
      BY DEF Pages, IInv, TypeOK
    <3>4. returned' = PageSize * i
      BY <3>1, <3>3, PmmAssumption
    <3>5. returned' \div PageSize = i
      BY <3>3, <3>4, DivOfProduct, PmmAssumption
    <3>6. returned' # 0
      BY <3>2, <3>3, <3>4, PmmAssumption
    <3> QED BY <3>2, <3>5, <3>6
  <2>2. CASE AllocFails
    <3>1. returned' = 0 /\ \A i \in Pages : bit[i] = 1
      BY <2>2 DEF AllocFails
    <3> QED BY <3>1 DEF IInv, Layout, BitmapExact
  <2> QED BY <2>1, <2>2
<1> QED BY <1>1, Invariance, PTL DEF Spec, AllocSound

\* A step that keeps the geometry moves frames as it moves bits and owners.
LEMMA Views ==
    ASSUME IInv, UNCHANGED Geometry
    PROVE  /\ Dependable => /\ freeFrames = Managed(map) \ owned
                            /\ heldFrames = owned
           /\ Dependable /\ BitmapExact' =>
                  /\ freeFrames' = Managed(map) \ owned'
                  /\ heldFrames' = owned'
           /\ ~Dependable => /\ freeFrames = {} /\ heldFrames = {}
                             /\ freeFrames' = {} /\ heldFrames' = {}
<1>1. /\ Dependable' = Dependable
      /\ Managed(map)' = Managed(map)
      /\ Pages' = Pages
      /\ Dependable => Managed(map) \subseteq Pages
  BY GeometryKept DEF IInv, Layout
<1> QED BY <1>1 DEF IInv, BitmapExact, freeFrames, heldFrames

(***************************************************************************)
(* pmm.c implements the abstract allocator, however often pmm_init runs: a *)
(* request takes a free frame, a free gives a held frame back, a repeated  *)
(* free and a write by an owner change nothing.                            *)
(***************************************************************************)
THEOREM Refinement == Spec => Implements
<1>1. Init => Abstract!AInit
  BY DEF Init, Abstract!AInit, freeFrames, heldFrames, Dependable
<1>2. IInv /\ IInv' /\ [Next]_vars => [Abstract!ANext]_(Abstract!avars)
  <2> SUFFICES ASSUME IInv, IInv', [Next]_vars
               PROVE  \/ Abstract!ANext
                      \/ UNCHANGED <<freeFrames, heldFrames, ~stale>>
    BY DEF Abstract!avars
  <2> USE DEF Abstract!ANext
  <2>0. /\ stale \in BOOLEAN /\ stale' \in BOOLEAN
        /\ stale => ~Dependable
        /\ stale' => ~Dependable'
    BY DEF IInv, TypeOK, Dependable
  <2>1. BitmapExact'
    BY DEF IInv
  <2>2. CASE PmmInitNoResponse
    <3>1. ~Dependable /\ ~Dependable' /\ stale' = stale
      BY <2>2 DEF PmmInitNoResponse, Dependable
    <3> QED BY <3>1 DEF freeFrames, heldFrames
  <2>3. CASE PmmInit \/ PmmInitFault
    <3>1. stale' = (stale \/ owned # {}) /\ owned' = owned
      BY <2>3 DEF PmmInit, PmmInitFault
    <3>2. CASE stale'
      <4>1. freeFrames' = {} /\ heldFrames' = {}
        BY <2>0, <3>2 DEF freeFrames, heldFrames
      <4> QED BY <2>0, <3>2, <4>1 DEF Abstract!ABreak
    <3>3. CASE ~stale'
      <4>1. ~stale /\ owned = {} /\ owned' = {}
        BY <3>1, <3>3
      <4>2. heldFrames = {} /\ heldFrames' = {}
        BY <4>1 DEF heldFrames
      <4>3. freeFrames' \subseteq Nat
        BY DEF freeFrames, Pages, IInv, TypeOK
      <4> QED BY <3>3, <4>1, <4>2, <4>3 DEF Abstract!APopulate
    <3> QED BY <3>2, <3>3
  <2>4. CASE AllocPage
    <3>1. PICK i \in Pages : bit[i] = 0 /\ owned' = owned \cup {i}
      BY <2>4 DEF AllocPage
    <3>2. UNCHANGED Geometry /\ stale' = stale
      BY <2>4 DEF AllocPage, Geometry
    <3>3. Dependable => i \in Managed(map) \ owned
      BY <3>1 DEF IInv, BitmapExact
    <3> QED BY <2>0, <2>1, <3>1, <3>2, <3>3, Views DEF Abstract!AAlloc
  <2>5. CASE AllocFails
    <3>1. UNCHANGED Geometry /\ owned' = owned /\ stale' = stale
      BY <2>5 DEF AllocFails, Geometry
    <3> QED BY <2>1, <3>1, Views
  <2>6. ASSUME NEW addr \in FreeAddrs, FreePage(addr)
        PROVE  \/ Abstract!ANext
               \/ UNCHANGED <<freeFrames, heldFrames, ~stale>>
    <3> DEFINE p == addr \div PageSize
    <3>1. UNCHANGED Geometry /\ owned' = owned \ {p} /\ stale' = stale
      BY <2>6 DEF FreePage, Geometry
    <3> HIDE DEF p
    <3>2. Dependable => owned \subseteq Managed(map)
      BY DEF IInv, BitmapExact
    <3>3. CASE p \in owned
      BY <2>0, <2>1, <3>1, <3>2, <3>3, Views DEF Abstract!ARelease
    <3>4. CASE p \notin owned
      BY <2>1, <3>1, <3>4, Views
    <3> QED BY <3>3, <3>4
  <2>7. ASSUME NEW p \in owned, OwnerWrites(p)
        PROVE  UNCHANGED <<freeFrames, heldFrames, ~stale>>
    <3>1. UNCHANGED Geometry /\ owned' = owned /\ stale' = stale
      BY <2>7 DEF OwnerWrites, Geometry
    <3> QED BY <2>1, <3>1, Views
  <2>8. CASE UNCHANGED vars
    <3>1. UNCHANGED Geometry /\ owned' = owned /\ stale' = stale
      BY <2>8 DEF vars, Geometry
    <3> QED BY <2>1, <3>1, Views
  <2> QED BY <2>2, <2>3, <2>4, <2>5, <2>6, <2>7, <2>8 DEF Next, MemoryInit
<1> QED BY <1>1, <1>2, Invariance, PTL DEF Spec, Implements, Abstract!ASpec
=============================================================================
