--------------------------- MODULE NaturalLemmas ---------------------------
(***************************************************************************)
(* Facts about natural numbers: induction over them in a form without an   *)
(* operator for a parameter, where a property is the set of the numbers    *)
(* that have it, and arithmetic.                                           *)
(***************************************************************************)
EXTENDS Integers, WellFoundedInduction, TLAPS

\* A set of natural numbers that is not empty has a least element.
LEMMA LeastExists ==
    ASSUME NEW S \in SUBSET Nat, S # {}
    PROVE  \E p \in S : \A q \in S : p =< q
<1> DEFINE R == {ss \in Nat \X Nat : ss[1] < ss[2]}
<1>1. \A x, y \in Nat : <<y, x>> \in R <=> y < x
  OBVIOUS
<1>2. IsWellFoundedOn(R, Nat)
  BY NatLessThanWellFounded, Zenon DEF OpToRel
<1> HIDE DEF R
<1>3. PICK p \in S : \A q \in S : ~(<<q, p>> \in R)
  BY <1>2, WFMin, Zenon
<1>4. p \in Nat /\ \A q \in S : q \in Nat /\ ~(q < p)
  BY <1>1, <1>3
<1>5. QED
  BY <1>4

\* The least element is the one that CHOOSE picks.
LEMMA LeastChosen ==
    ASSUME NEW S \in SUBSET Nat, NEW p \in S, \A q \in S : p =< q
    PROVE  p = CHOOSE i \in S : \A j \in S : i =< j
<1> DEFINE c == CHOOSE i \in S : \A j \in S : i =< j
<1>1. c \in S /\ \A j \in S : c =< j
  OBVIOUS
<1> HIDE DEF c
<1>2. p =< c /\ c =< p /\ p \in Nat /\ c \in Nat
  BY <1>1
<1>3. p = c
  BY <1>2
<1>4. QED
  BY <1>3 DEF c

\* A set with 0 that has the successor of each of its numbers has all numbers.
LEMMA Induction ==
    ASSUME NEW S \in SUBSET Nat, 0 \in S, \A n \in S : n + 1 \in S
    PROVE  \A n \in Nat : n \in S
<1> DEFINE out == {n \in Nat : n \notin S}
<1>1. SUFFICES ASSUME out # {} PROVE FALSE
  OBVIOUS
<1>2. PICK p \in out : \A q \in out : p =< q
  BY <1>1, LeastExists
<1>3. p # 0 /\ p - 1 \in Nat /\ p - 1 \notin out
  BY <1>2
<1>4. p - 1 \in S
  BY <1>3
<1>5. p \in S
  BY <1>2, <1>4
<1>6. QED
  BY <1>2, <1>5

\* f starts with a, and each of its values comes from the one before.
Iterates(f, a, F, k) == f[0] = a /\ \A n \in 1..k : f[n] = F[n][f[n - 1]]

\* What a recursive definition over 0 .. k asks for exists.
LEMMA RecursionExists ==
    ASSUME NEW S, NEW a \in S, NEW k \in Nat, NEW F \in [1..k -> [S -> S]]
    PROVE  \E f \in [0..k -> S] : Iterates(f, a, F, k)
<1> DEFINE reached == {m \in Nat : m =< k => \E f \in [0..m -> S] : Iterates(f, a, F, m)}
<1>1. 0 \in reached
  <2>1. [n \in 0..0 |-> a] \in [0..0 -> S] /\ Iterates([n \in 0..0 |-> a], a, F, 0)
    BY DEF Iterates
  <2>2. QED
    BY <2>1
<1>2. ASSUME NEW m \in reached, m + 1 =< k
      PROVE  \E f \in [0..(m + 1) -> S] : Iterates(f, a, F, m + 1)
  <2>1. m \in Nat /\ m + 1 \in 1..k
    BY <1>2
  <2>2. PICK f \in [0..m -> S] : Iterates(f, a, F, m)
    BY <1>2, <2>1
  <2> DEFINE g == [n \in 0..(m + 1) |-> IF n = m + 1 THEN F[m + 1][f[m]] ELSE f[n]]
  <2>3. f[m] \in S /\ F[m + 1] \in [S -> S]
    BY <2>1
  <2>4. F[m + 1][f[m]] \in S
    BY <2>3
  <2>5. g \in [0..(m + 1) -> S]
    BY <2>1, <2>4
  <2>6. g[m + 1] = F[m + 1][f[m]] /\ \A n \in 0..m : g[n] = f[n]
    BY <2>1
  <2> HIDE DEF g
  <2>7. Iterates(g, a, F, m + 1)
    <3>1. g[0] = a
      BY <2>1, <2>2, <2>6 DEF Iterates
    <3>2. ASSUME NEW n \in 1..(m + 1)
          PROVE  g[n] = F[n][g[n - 1]]
      <4>1. CASE n = m + 1
        BY <2>1, <2>6, <4>1
      <4>2. CASE n \in 1..m
        BY <2>1, <2>2, <2>6, <4>2 DEF Iterates
      <4>3. QED
        BY <2>1, <4>1, <4>2
    <3>3. QED
      BY <3>1, <3>2 DEF Iterates
  <2>8. QED
    BY <2>5, <2>7
<1>3. \A m \in reached : m + 1 \in reached
  BY <1>2
<1>4. \A n \in Nat : n \in reached
  <2> HIDE DEF reached
  <2>1. reached \in SUBSET Nat
    BY DEF reached
  <2>2. QED
    BY <1>1, <1>3, <2>1, Induction
<1>5. QED
  BY <1>4

\* Induction from lo to hi.
LEMMA IntervalInduction ==
    ASSUME NEW S, NEW lo \in Int, NEW hi \in Int, lo \in S,
           \A n \in lo..(hi - 1) : n \in S => n + 1 \in S
    PROVE  \A n \in lo..hi : n \in S
<1> DEFINE T == {m \in Nat : lo + m =< hi => lo + m \in S}
<1>1. 0 \in T
  OBVIOUS
<1>2. ASSUME NEW m \in T PROVE m + 1 \in T
  <2>1. CASE lo + (m + 1) =< hi
    <3>1. m \in Nat /\ lo + m \in lo..(hi - 1) /\ lo + m \in S /\ lo + (m + 1) = (lo + m) + 1
      BY <2>1
    <3>2. (lo + m) + 1 \in S
      BY <3>1
    <3>3. QED
      BY <3>1, <3>2
  <2>2. QED
    BY <2>1
<1>3. T \in SUBSET Nat
  OBVIOUS
<1> HIDE DEF T
<1>4. \A m \in Nat : m \in T
  BY <1>1, <1>2, <1>3, Induction
<1>5. ASSUME NEW n \in lo..hi PROVE n \in S
  <2>1. n - lo \in Nat /\ lo + (n - lo) = n /\ n =< hi
    OBVIOUS
  <2>2. QED
    BY <1>4, <2>1 DEF T
<1>6. QED
  BY <1>5

\* The same from lo to hi.
IteratesFrom(f, a, F, lo, hi) == f[lo] = a /\ \A n \in (lo + 1)..hi : f[n] = F[n][f[n - 1]]

\* Recursion from lo to hi.
LEMMA IntervalRecursion ==
    ASSUME NEW S, NEW a \in S, NEW lo \in Int, NEW hi \in Int, lo =< hi,
           NEW F \in [(lo + 1)..hi -> [S -> S]]
    PROVE  \E f \in [lo..hi -> S] : IteratesFrom(f, a, F, lo, hi)
<1> DEFINE k == hi - lo
           G == [n \in 1..k |-> F[lo + n]]
<1>1. k \in Nat /\ \A n \in 1..k : lo + n \in (lo + 1)..hi
  OBVIOUS
<1>2. G \in [1..k -> [S -> S]]
  BY <1>1
<1>3. PICK g \in [0..k -> S] : Iterates(g, a, G, k)
  <2> HIDE DEF G
  <2>1. QED
    BY <1>1, <1>2, RecursionExists
<1> DEFINE f == [n \in lo..hi |-> g[n - lo]]
<1>4. \A n \in lo..hi : n - lo \in 0..k
  OBVIOUS
<1>5. f \in [lo..hi -> S]
  BY <1>4
<1>6. f[lo] = a
  BY <1>3 DEF Iterates
<1>7. ASSUME NEW n \in (lo + 1)..hi
      PROVE  f[n] = F[n][f[n - 1]]
  <2>1. /\ n \in lo..hi /\ n - 1 \in lo..hi /\ n - lo \in 1..k /\ lo + (n - lo) = n
        /\ (n - 1) - lo = (n - lo) - 1
    OBVIOUS
  <2>2. f[n] = g[n - lo] /\ f[n - 1] = g[(n - lo) - 1] /\ G[n - lo] = F[n]
    BY <2>1
  <2>3. g[n - lo] = G[n - lo][g[(n - lo) - 1]]
    BY <1>3, <2>1 DEF Iterates
  <2> HIDE DEF f, G
  <2>4. QED
    BY <2>2, <2>3
<1> HIDE DEF f
<1>8. QED
  BY <1>5, <1>6, <1>7 DEF IteratesFrom

-----------------------------------------------------------------------------
(***************************************************************************)
(* Products, quotients and remainders, loops that stop and sums that grow. *)
(***************************************************************************)
\* A product with one factor moved by one.
LEMMA OneMore ==
    ASSUME NEW a \in Int, NEW b \in Int
    PROVE  (a + 1) * b = a * b + b /\ (a - 1) * b = a * b - b
OBVIOUS

LEMMA ProductIsNatural ==
    ASSUME NEW a \in Nat, NEW b \in Nat
    PROVE  a * b \in Nat
OBVIOUS

LEMMA DivRest ==
    ASSUME NEW a \in Nat, NEW b \in Nat \ {0}
    PROVE  a \div b \in Nat /\ a % b \in 0..(b - 1) /\ a = b * (a \div b) + (a % b)
OBVIOUS

\* Quotient and remainder are unique.
LEMMA SameQuotient ==
    ASSUME NEW p \in Nat \ {0}, NEW c \in Nat, NEW d \in Nat,
           NEW r \in 0..(p - 1), NEW s \in 0..(p - 1), p * c + r = p * d + s
    PROVE  c = d /\ r = s
<1>1. ASSUME NEW a \in Nat, NEW b \in Nat, NEW u \in 0..(p - 1), NEW v \in 0..(p - 1),
             a < b, p * a + u = p * b + v
      PROVE  FALSE
  <2> DEFINE z == b - a - 1
  <2>1. z \in Nat /\ b = a + 1 + z
    BY <1>1
  <2> HIDE DEF z
  <2>2. p * z \in Nat /\ p * a \in Nat
    BY <2>1, ProductIsNatural
  <2>3. p * b = p * a + p + p * z
    BY <2>1
  <2>4. QED
    BY <1>1, <2>2, <2>3
<1>2. ~(c < d) /\ ~(d < c)
  BY <1>1
<1>3. c = d
  BY <1>2
<1>4. p * c \in Nat
  BY ProductIsNatural
<1>5. QED
  BY <1>3, <1>4

LEMMA SmallRest ==
    ASSUME NEW a \in Nat, NEW b \in Nat \ {0}, a < b
    PROVE  a % b = a
<1>1. a \div b \in Nat /\ a % b \in 0..(b - 1) /\ a = b * (a \div b) + (a % b)
  BY DivRest
<1>2. b * 0 + a = a /\ a \in 0..(b - 1)
  OBVIOUS
<1> DEFINE q == a \div b
           r == a % b
<1> HIDE DEF q, r
<1>3. q \in Nat /\ r \in 0..(b - 1) /\ b * q + r = b * 0 + a /\ 0 \in Nat
  BY <1>1, <1>2 DEF q, r
<1>4. r = a
  BY <1>2, <1>3, SameQuotient
<1>5. QED
  BY <1>4 DEF r

LEMMA QuotientIs ==
    ASSUME NEW x \in Int, NEW b \in Nat \ {0}, NEW c \in Int, c * b =< x, x < c * b + b
    PROVE  x \div b = c
<1> DEFINE d == x \div b
<1>1. d \in Int /\ b * d =< x /\ x < b * d + b
  OBVIOUS
<1> HIDE DEF d
<1>2. b * d \in Int /\ c * b \in Int
  BY <1>1
<1>3. ASSUME d < c PROVE FALSE
  <2>1. (c - d) - 1 \in Nat
    BY <1>1, <1>3
  <2>2. ((c - d) - 1) * b \in Nat
    BY <2>1, ProductIsNatural
  <2>3. c * b = (b * d + b) + ((c - d) - 1) * b
    BY <1>1
  <2>4. QED
    BY <1>1, <1>2, <2>2, <2>3
<1>4. ASSUME d > c PROVE FALSE
  <2>1. (d - c) - 1 \in Nat
    BY <1>1, <1>4
  <2>2. ((d - c) - 1) * b \in Nat
    BY <2>1, ProductIsNatural
  <2>3. b * d = (c * b + b) + ((d - c) - 1) * b
    BY <1>1
  <2>4. QED
    BY <1>1, <1>2, <2>2, <2>3
<1>5. QED
  BY <1>1, <1>3, <1>4 DEF d

LEMMA NextMultiple ==
    ASSUME NEW a \in Nat, NEW b \in Nat, NEW s \in Nat \ {0}, a * s < b * s
    PROVE  a * s + s =< b * s
<1>1. a < b
  <2>1. SUFFICES ASSUME a >= b PROVE FALSE
    OBVIOUS
  <2>2. a - b \in Nat
    BY <2>1
  <2>3. (a - b) * s \in Nat /\ a * s = b * s + (a - b) * s
    BY <2>2, ProductIsNatural
  <2>4. a * s \in Nat /\ b * s \in Nat
    OBVIOUS
  <2>5. QED
    BY <2>3, <2>4
<1>2. (b - a) - 1 \in Nat
  BY <1>1
<1>3. ((b - a) - 1) * s \in Nat /\ b * s = (a * s + s) + ((b - a) - 1) * s
  BY <1>2, ProductIsNatural
<1>4. a * s \in Nat
  OBVIOUS
<1>5. QED
  BY <1>3, <1>4

\* A digit below p and a digit below q make a number below p * q.
LEMMA TwoDigits ==
    ASSUME NEW p \in Nat \ {0}, NEW q \in Nat \ {0}, NEW x \in 0..(p - 1), NEW y \in 0..(q - 1)
    PROVE  p * q \in Nat \ {0} /\ p * y + x \in 0..(p * q - 1)
<1> DEFINE z == q - 1 - y
<1>1. z \in Nat /\ q = z + 1 + y
  OBVIOUS
<1> HIDE DEF z
<1>2. p * z \in Nat /\ p * y \in Nat
  BY <1>1, ProductIsNatural
<1>3. p * q = p * z + p + p * y
  BY <1>1
<1>4. QED
  BY <1>2, <1>3

LEMMA MinusZero ==
    ASSUME NEW n \in Int, n >= 0, n =< 0
    PROVE  -n = n
OBVIOUS

\* One turn of the loop on the bits of n.
BitKeeps(p, b, n, t) ==
    /\ n \div 2 \in Nat
    /\ (IF n % 2 = 1 THEN p + b ELSE p) + (2 * b) * (n \div 2) = t

LEMMA OneBit ==
    ASSUME NEW p \in Int, NEW b \in Int, NEW n \in Nat, NEW t \in Int, p + b * n = t
    PROVE  BitKeeps(p, b, n, t)
<1> DEFINE h == n \div 2
<1>1. h \in Nat /\ n % 2 \in 0..1 /\ n = 2 * h + (n % 2)
  OBVIOUS
<1> HIDE DEF h
<1>2. CASE n % 2 = 1
  <2>1. n = 2 * h + 1
    BY <1>1, <1>2
  <2>2. b * n = (2 * b) * h + b
    BY <1>1, <2>1
  <2> DEFINE x == b * n
             y == (2 * b) * h
  <2>3. x \in Int /\ y \in Int /\ x = y + b /\ p + x = t
    BY <1>1, <2>2
  <2> HIDE DEF x, y
  <2>4. p + b + y = t
    BY <2>3
  <2>5. QED
    BY <1>1, <1>2, <2>4 DEF BitKeeps, y, h
<1>3. CASE n % 2 # 1
  <2>1. n = 2 * h
    BY <1>1, <1>3
  <2>2. b * n = (2 * b) * h
    BY <1>1, <2>1
  <2>3. QED
    BY <1>1, <1>3, <2>2 DEF BitKeeps, h
<1>4. QED
  BY <1>2, <1>3

\* How many steps of the spacing s a number q * s + r is rounded to.
Steps(q, s, r) == IF 2 * r > s \/ (2 * r = s /\ q % 2 = 1) THEN q + 1 ELSE q

LEMMA StepsBound ==
    ASSUME NEW q \in Nat, NEW s \in Nat, NEW r \in Nat
    PROVE  Steps(q, s, r) \in {q, q + 1}
BY DEF Steps

\* A loop over the characters stops at the first that does not go on.
FirstOutside(q, lo, G) == q \notin G /\ \A r \in lo..(q - 1) : r \in G

LEMMA LoopEnds ==
    ASSUME NEW lo \in Nat, NEW hi \in Nat, NEW G, NEW m \in lo..hi, m \notin G
    PROVE  \E q \in lo..hi : FirstOutside(q, lo, G)
<1> DEFINE D == {q \in lo..hi : q \notin G}
<1>1. m \in D /\ D \in SUBSET Nat
  OBVIOUS
<1>2. PICK l \in D : \A q \in D : l =< q
  BY <1>1, LeastExists
<1>3. ASSUME NEW r \in lo..(l - 1)
      PROVE  r \in G
  <2>1. r \in lo..hi /\ ~(l =< r)
    BY <1>2
  <2>2. QED
    BY <1>2, <2>1
<1>4. QED
  BY <1>1, <1>2, <1>3 DEF FirstOutside

\* A loop over the characters stops where the string ends, or earlier.
LEMMA StopsAt ==
    ASSUME NEW lo \in Nat, NEW hi \in Nat, NEW G, NEW m \in lo..hi,
           m \notin G, \A r \in lo..(m - 1) : r \in G
    PROVE  m = CHOOSE q \in lo..hi : ~(q \in G) /\ \A r \in lo..(q - 1) : r \in G
<1> DEFINE P(q) == ~(q \in G) /\ \A r \in lo..(q - 1) : r \in G
           c == CHOOSE q \in lo..hi : P(q)
<1>1. P(m)
  OBVIOUS
<1>2. c \in lo..hi /\ P(c)
  <2> HIDE DEF P
  <2>1. QED
    BY <1>1
<1> HIDE DEF c
<1>3. ~(c < m) /\ ~(m < c)
  <2>1. c < m => c \in lo..(m - 1)
    BY <1>2
  <2>2. m < c => m \in lo..(c - 1)
    BY <1>2
  <2>3. QED
    BY <1>1, <1>2, <2>1, <2>2
<1>4. c = m
  BY <1>2, <1>3
<1>5. QED
  BY <1>4 DEF c

\* before[u] is the sum of the lengths from lo up to u.
Sums(before, length, lo, hi) ==
    /\ before[lo] = 0
    /\ \A u \in lo..hi : before[u] \in Nat
    /\ \A u \in lo..(hi - 1) : length[u] \in Nat /\ before[u + 1] = before[u] + length[u]

LEMMA SumsGrow ==
    ASSUME NEW before, NEW length, NEW lo \in Nat, NEW hi \in Nat,
           Sums(before, length, lo, hi), NEW u \in lo..hi
    PROVE  \A v \in u..hi : before[u] =< before[v]
<1> DEFINE S == {v \in u..hi : before[u] =< before[v]}
<1>1. u \in S
  BY DEF Sums
<1>2. ASSUME NEW v \in u..(hi - 1), v \in S PROVE v + 1 \in S
  <2>1. v \in lo..(hi - 1) /\ v \in lo..hi /\ v + 1 \in lo..hi /\ v + 1 \in u..hi
    OBVIOUS
  <2>2. /\ before[u] \in Nat /\ before[v] \in Nat /\ length[v] \in Nat
        /\ before[v + 1] = before[v] + length[v]
    BY <2>1 DEF Sums
  <2>3. before[u] =< before[v]
    BY <1>2
  <2>4. QED
    BY <2>1, <2>2, <2>3
<1>3. u \in Int /\ hi \in Int
  OBVIOUS
<1> HIDE DEF S
<1>4. \A v \in u..hi : v \in S
  BY <1>1, <1>2, <1>3, IntervalInduction
<1>5. QED
  BY <1>4 DEF S
=============================================================================
