------------------------- MODULE RoutinesInvariants -------------------------
(***************************************************************************)
(* The inductive invariants of the routines, and what they are stated      *)
(* with. RoutinesProofs shows that they hold and what follows from them.   *)
(***************************************************************************)
EXTENDS Routines

-----------------------------------------------------------------------------
(***************************************************************************)
(* qsort and bsearch.                                                      *)
(***************************************************************************)
CallT == [lo : Nat \ {0}, n : Nat]

\* The elements that a call works on.
Part(c) == {a \in Nat : c.lo =< a /\ a < c.lo + c.n}

SortTypeOK ==
    /\ Len(input) \in Nat /\ input \in [1..Len(input) -> Values]
    /\ arr \in [1..Len(input) -> Values]
    /\ calls \in Seq(CallT) /\ frame \in CallT
    /\ scan \in Nat /\ store \in Nat
    /\ key \in Int /\ left \in Nat /\ right \in Nat /\ found \in Nat
    /\ sort_pc \in {"call", "partition", "search", "done"}

\* The array holds the elements of the input, each where a permutation puts it.
Permutes(g, D) ==
    /\ g \in [D -> D]
    /\ \A a, b \in D : g[a] = g[b] => a = b
    /\ \A b \in D : \E a \in D : g[a] = b
Rearranged ==
    \E g : /\ Permutes(g, 1..Len(input))
           /\ \A a \in 1..Len(input) : arr[a] = input[g[a]]

\* The parts that are still to be sorted lie in the array and do not overlap.
PartsApart ==
    /\ \A i \in 1..Len(calls) : Part(calls[i]) \subseteq 1..Len(input)
    /\ \A i, j \in 1..Len(calls) : i # j => Part(calls[i]) \cap Part(calls[j]) = {}
    /\ sort_pc = "partition" =>
         /\ Part(frame) \subseteq 1..Len(input)
         /\ \A i \in 1..Len(calls) : Part(calls[i]) \cap Part(frame) = {}

\* Some call will still compare what is at a and at b.
Pending(a, b) ==
    \/ \E i \in 1..Len(calls) : {a, b} \subseteq Part(calls[i])
    \/ sort_pc = "partition" /\ {a, b} \subseteq Part(frame)

\* All other elements are in order.
Ordered == \A a, b \in 1..Len(input) : a < b => arr[a] =< arr[b] \/ Pending(a, b)

\* The loop of qsort: smaller elements, then others, then the ones to come.
Partitioned ==
    sort_pc = "partition" =>
        /\ frame.n > 1
        /\ frame.lo =< store /\ store =< scan /\ scan =< Pivot
        /\ \A a \in 1..Len(input) : frame.lo =< a /\ a < store => arr[a] < arr[Pivot]
        /\ \A a \in 1..Len(input) : store =< a /\ a < scan => arr[Pivot] =< arr[a]

\* The loop of bsearch: the key is nowhere else.
Narrowed ==
    /\ sort_pc \in {"search", "done"} => calls = <<>>
    /\ sort_pc = "search" =>
         /\ left =< right /\ right =< Len(input)
         /\ \A a \in 1..Len(input) : a =< left => arr[a] < key
         /\ \A a \in 1..Len(input) : right < a => key < arr[a]
    /\ sort_pc = "done" =>
         IF found = 0 THEN \A a \in 1..Len(input) : arr[a] # key
         ELSE found \in 1..Len(input) /\ arr[found] = key

SortInv == SortTypeOK /\ Rearranged /\ PartsApart /\ Ordered /\ Partitioned /\ Narrowed

-----------------------------------------------------------------------------
(***************************************************************************)
(* memmove.                                                                *)
(***************************************************************************)
Area == [dest : Nat \ {0}, src : Nat \ {0}, count : Nat]

MoveTypeOK ==
    /\ moving \in Area /\ dest \in Nat \ {0} /\ src \in Nat \ {0} /\ count \in Nat
    /\ mem \in [1..Memory -> Int]
    /\ str_pc \in {"memmove", "strtok", "done"}

\* The bytes of the destination from a up to b have been delivered, no others.
Delivered(a, b) ==
    \A n \in 1..Memory :
        mem[n] = IF a =< n /\ n < b THEN n - moving.dest + moving.src ELSE n

\* The areas lie in memory.  The loop has delivered the first bytes, or the
\* last ones; what it has still to read is untouched.
MoveLoop ==
    /\ moving.dest + moving.count =< Memory + 1
    /\ moving.src + moving.count =< Memory + 1
    /\ count =< moving.count
    /\ IF Forward
       THEN /\ dest + count = moving.dest + moving.count
            /\ src + count = moving.src + moving.count
            /\ Delivered(moving.dest, dest)
       ELSE /\ dest = moving.dest /\ src = moving.src
            /\ Delivered(dest + count, dest + moving.count)

\* A call delivers; a program that calls strtok moves nothing.
MoveInv ==
    /\ MoveTypeOK
    /\ str_pc = "memmove" => MoveLoop
    /\ str_pc \in {"strtok", "done"} => Delivered(moving.dest, moving.dest + moving.count)

-----------------------------------------------------------------------------
(***************************************************************************)
(* framebuffer_draw_line.                                                  *)
(***************************************************************************)
Pixel == [x : Int, y : Int]

LineTypeOK ==
    /\ from \in Pixel /\ to \in Pixel /\ pen \in Pixel /\ err \in Int
    /\ lit \subseteq Pixel

\* How far p lies from the line, to one side or the other.
Offset(p) == (p.x - from.x) * (to.y - from.y) - (p.y - from.y) * (to.x - from.x)

\* err carries the offset of the pen, turned by the direction of the line,
\* and has kept it within half a pixel.
Deviation == err - dx - dy
OnCourse ==
    /\ Offset(pen) = IF sx = sy THEN -Deviation ELSE Deviation
    /\ 2 * Deviation =< Longer /\ -Longer =< 2 * Deviation

LineInv == LineTypeOK /\ OnCourse /\ LineDrawn

-----------------------------------------------------------------------------
(***************************************************************************)
(* vsnprintf and console_vprintf.                                          *)
(***************************************************************************)
FmtTypeOK ==
    /\ writer \in {"libc", "console"}
    /\ Len(format) \in Nat /\ format \in [1..Len(format) -> {"%", "v", "c", "o", "l"}]
    /\ size \in Nat /\ size < SizeMod /\ at \in Nat \ {0}
    /\ out \in Seq(Letters) /\ full \in Seq(Letters)
    /\ fmt_pc \in {"loop", "done"}
    /\ IF writer = "console" THEN size = 0 ELSE \A n \in 1..Len(format) : format[n] # "l"

\* The last conversion was one that is none.
JustUnknown == at > 2 /\ format[at - 2] = "%" /\ format[at - 1] = "o"

\* The buffer has everything while there is room, then its beginning; the byte
\* of the NUL is taken by an unknown conversion only.
Bounded ==
    IF writer = "libc"
    THEN /\ Len(out) < Room => out = full
         /\ Len(out) =< Room => out = Prefix(full, Room)
         /\ Len(out) > Room => Len(out) = Room + 1 /\ out = full /\ JustUnknown
    ELSE out = full

\* Only "%l" at the end leads behind the NUL of the format.
InFormat ==
    at > Len(format) + 1 =>
        /\ writer = "console" /\ Len(format) > 1
        /\ format[Len(format)] = "l" /\ format[Len(format) - 1] = "%"

\* The text is cut off only where the buffer is full.
CutWhenFull ==
    fmt_pc = "done" /\ (writer = "libc" => Len(full) < Room) => at > Len(format)

FmtInv == FmtTypeOK /\ Bounded /\ InFormat /\ CutWhenFull

-----------------------------------------------------------------------------
(***************************************************************************)
(* malloc, calloc, realloc, free, strdup and strndup.                      *)
(***************************************************************************)
Space(h) == h \in [1..HeapSize -> Nat]

\* The blocks lie in memory and do not overlap.
Apart(b) ==
    /\ b \in [DOMAIN b -> Nat \ {0}] /\ DOMAIN b \subseteq 1..HeapSize
    /\ \A a \in DOMAIN b : a + b[a] =< HeapSize + 1
    /\ \A a, c \in DOMAIN b : a # c => a + b[a] =< c \/ c + b[c] =< a

\* The memory from a on has the bytes s.
Has(h, a, s) == \A i \in 1..Len(s) : h[a + i - 1] = s[i]

\* Every block is as its owner expects it.
Owned(h, b, w) ==
    /\ w \in [DOMAIN b -> Seq(Nat)]
    /\ \A a \in DOMAIN b : Len(w[a]) =< b[a] /\ Has(h, a, w[a])

Sound(h, b, w) == Space(h) /\ Apart(b) /\ Owned(h, b, w)
HeapInv == Sound(heap, blocks, want)

-----------------------------------------------------------------------------
(***************************************************************************)
(* strftime and asctime.                                                   *)
(***************************************************************************)
ItemT == {i \in [kind : {"text", "%02d", "plain", "%%", "unknown"}, len : Nat] :
             i.kind = "%02d" => i = Two}

TfTypeOK ==
    /\ Len(tf_format) \in Nat /\ tf_format \in [1..Len(tf_format) -> ItemT]
    /\ tf_max \in Nat \ {0} /\ tf_at \in 1..(Len(tf_format) + 1) /\ tf_count \in Nat
    /\ tf_pc \in {"loop", "done"}

\* The format so far has no conversion that is counted twice.
CountedOnce == TimeDone \cap {"%%", "unknown"} = {}

\* The array is filled up to count, perhaps with the NUL of snprintf behind.
Filled ==
    CountedOnce =>
        /\ tf_written = 0..tf_count \/ (tf_pc = "loop" /\ tf_written = 0..(tf_count - 1))
        /\ tf_count < tf_max \/ Tight

\* What asctime has counted when it comes to an item; the array ends at the 12th.
AsctimeCount == <<0, 3, 4, 7, 8, 12, 13, 17, 18, 22, 23, 25>>
InAsctime ==
    tf_format = AsctimeFormat /\ tf_max = AsctimeSize =>
        tf_at \in 1..12 /\ tf_count = AsctimeCount[tf_at]

TfInv == TfTypeOK /\ Filled /\ InAsctime

-----------------------------------------------------------------------------
(***************************************************************************)
(* The functions that write strings.                                       *)
(***************************************************************************)
\* An array with what is behind it; the guards are untouched.
Array(b) ==
    /\ b \in Seq(Chars) /\ Len(b) = BufSize + 2
    /\ b[BufSize + 1] = Guard /\ b[BufSize + 2] = Guard

\* A reader who starts at p finds the string t.
Reads(b, p, t) ==
    /\ Array(b) /\ p \in 1..BufSize /\ t \in Seq(Chars \ {NUL}) /\ p + Len(t) =< BufSize
    /\ \A i \in 1..Len(t) : b[p + i - 1] = t[i]
    /\ b[p + Len(t)] = NUL

BufInv == \E t : Reads(bytes, start, t)

-----------------------------------------------------------------------------
(***************************************************************************)
(* strtok.                                                                 *)
(***************************************************************************)
\* The line and what the calls have left of it: a delimiter may be a NUL now.
LineKept ==
    /\ line \in Seq(Chars \ {NUL}) /\ text \in Seq(Chars) /\ Len(text) = Len(line) + 1
    /\ text[Len(line) + 1] = NUL
    /\ \A i \in 1..Len(line) : text[i] = line[i] \/ (text[i] = NUL /\ line[i] = Dash)

\* saveptr is where a run may begin, and the line from there on is untouched.
PointerKept ==
    /\ saveptr \in 0..(Len(line) + 1)
    /\ saveptr # NoPointer =>
         /\ saveptr = 1 \/ line[saveptr - 1] = Dash
         /\ \A i \in saveptr..Len(line) : text[i] = line[i]

\* The run of the line l that begins at p ends before a NUL of t.
TokenEnds(t, l, p, e) ==
    /\ e \in p..Len(l) /\ t[e + 1] = NUL
    /\ e = Len(l) \/ l[e + 1] = Dash
    /\ \A i \in p..e : l[i] # Dash

\* The tokens are the starts before the pointer, in order.
TokensKept ==
    /\ tokens \in Seq(Nat)
    /\ \A n \in 1..Len(tokens) :
          /\ tokens[n] \in Starts
          /\ saveptr # NoPointer => tokens[n] < saveptr
          /\ \A m \in 1..(n - 1) : tokens[m] < tokens[n]
          /\ \E e : TokenEnds(text, line, tokens[n], e)
    /\ \A p \in Starts : saveptr = NoPointer \/ p < saveptr => \E n \in 1..Len(tokens) : tokens[n] = p

TokInv == LineKept /\ PointerKept /\ TokensKept

-----------------------------------------------------------------------------
(***************************************************************************)
(* The functions that compare and search.                                  *)
(***************************************************************************)
\* The arguments are strings, and no step changes them.
SearchInv == IsText(s1) /\ IsText(s2) /\ limit \in 0..Len(s1)

-----------------------------------------------------------------------------
(***************************************************************************)
(* gmtime and mktime.                                                      *)
(***************************************************************************)
\* The days from the epoch to a year, and from the first of January to a month.
YearsBefore(year) == 365 * (year - 1970) + Cardinality({y \in 1970..(year - 1) : LeapDay(y) = 1})
MonthsBefore(mon, year) ==
    <<0, 31, 59, 90, 120, 151, 181, 212, 243, 273, 304, 334>>[mon + 1]
    + (IF mon > 1 THEN LeapDay(year) ELSE 0)

\* The reference's date is a day of the calendar, and its counters agree.
DateOf(d) ==
    /\ d.year \in Nat /\ d.year >= 1970 /\ d.mon \in 0..11
    /\ d.mday \in 1..LastDay(d.mon, d.year)
    /\ d.yday = MonthsBefore(d.mon, d.year) + d.mday - 1
    /\ d.n = YearsBefore(d.year) + d.yday
    /\ d.wday = (4 + d.n) % 7

CalInv ==
    /\ DateOf(today)
    /\ sec_of_day \in 0..(SecPerDay - 1)
    /\ current_tm = Gmtime(today.n * SecPerDay + sec_of_day)

-----------------------------------------------------------------------------
(***************************************************************************)
(* Numbers as text.                                                        *)
(***************************************************************************)
Absolute(n) == IF n < 0 THEN -n ELSE n

\* f goes from the number down to what is left of it, a digit at a time.
Divides(f, d, b, first, last) ==
    /\ f \in [0..Len(d) -> Nat] /\ f[0] = first /\ f[Len(d)] = last
    /\ \A k \in 1..Len(d) : f[k - 1] = f[k] * b + d[k]

\* The digits of a number, the last one first, without a leading zero.
Produced(d, b, v) ==
    /\ d \in Seq(0..(b - 1)) /\ Len(d) > 0
    /\ \E f : Divides(f, d, b, Absolute(v), 0)
    /\ Len(d) > 1 => d[Len(d)] # 0

\* d, with the ends before lo and behind hi exchanged.
Turned(e, d, lo, hi) ==
    /\ e \in Seq(Nat) /\ Len(e) = Len(d)
    /\ \A k \in 1..Len(d) : e[k] = IF lo =< k /\ k =< hi THEN d[k] ELSE d[Len(d) + 1 - k]

\* The call that prints the wrong text.
Smallest == library = "console" /\ value = IntMin

DigTypeOK ==
    /\ value \in Numbers /\ base \in 2..36 /\ library \in {"libc", "console"}
    /\ minus \in BOOLEAN /\ (minus <=> WritesMinus)
    /\ dig_pc \in {"digits", "reverse", "done"}

DigLoop ==
    dig_pc = "digits" =>
        /\ number \in Int /\ (library = "console" => number >= 0)
        /\ digits \in Seq(0..(base - 1)) /\ (number = 0 => Len(digits) = 0)
        /\ \E f : Divides(f, digits, base, Absolute(value), Absolute(number))

DigTurn ==
    dig_pc = "reverse" =>
        /\ low \in Nat /\ high \in Nat /\ low >= 1 /\ low + high = Len(digits) + 1
        /\ \E d : Produced(d, base, value) /\ Turned(digits, d, low, high)

DigTurned ==
    dig_pc = "done" => \E d : Produced(d, base, value) /\ Turned(digits, d, 1, 0)

DigInv == DigTypeOK /\ (Smallest \/ (DigLoop /\ DigTurn /\ DigTurned))

-----------------------------------------------------------------------------
(***************************************************************************)
(* Texts, blocks of the heap and the numbers that texts hold: the terms in *)
(* which the proofs speak of them.                                         *)
(***************************************************************************)
\* The bytes s are the first of t.
Begins(t, s) == Len(s) =< Len(t) /\ \A i \in 1..Len(s) : t[i] = s[i]

\* Where kmalloc may put a block.
Vacant(b, a, length) ==
    /\ length > 0 /\ a + length =< HeapSize + 1
    /\ \A c \in DOMAIN b : a + length =< c \/ c + b[c] =< a

\* A string ends at its NUL.
CString(s) ==
    /\ s \in Seq(Nat) /\ Len(s) \in Nat \ {0} /\ s[Len(s)] = NUL
    /\ \A i \in 1..(Len(s) - 1) : s[i] # NUL

\* The places of a string that trimming keeps.
SolidIn(s) == {i \in 1..Len(s) : ~Isspace(s[i])}

\* Without a call of strtok there is no pointer.
TokDone == str_pc # "strtok" => saveptr = NoPointer

\* The two texts are the same before k, and strncmp with the limit max stops there.
PartsAt(a, b, max, k) ==
    /\ k \in 1..Len(a) /\ k =< Len(b) /\ k =< max + 1
    /\ \A r \in 1..(k - 1) : a[r] = b[r] /\ a[r] # NUL
    /\ k > max \/ a[k] = NUL \/ a[k] # b[k]
    /\ Strncmp(a, b, max) = IF k > max THEN 0 ELSE a[k] - b[k]

\* Where the inner loop of strstr stops, from the place h on.
StopIn(haystack, needle, h) ==
    Loop(1, Len(needle), LAMBDA i :
            haystack[h + i - 1] # NUL /\ needle[i] # NUL
            /\ haystack[h + i - 1] = needle[i])

\* g reads the digits e in base b, the first one first, and ends with v.
Horner(g, e, b, v) ==
    /\ g \in [0..Len(e) -> Nat] /\ g[0] = 0 /\ g[Len(e)] = v
    /\ \A n \in 1..Len(e) : g[n] = g[n - 1] * b + e[n]

\* digitAt has the digits e from p on.
Spells(digitAt, p, stop, e) ==
    /\ p \in Nat \ {0} /\ Len(e) \in Nat /\ stop = p + Len(e)
    /\ \A k \in 1..Len(e) : e[k] \in Nat /\ digitAt[p + k - 1] = e[k]

\* s holds the characters of e from q on, and then its NUL.
Holds(s, q, e) ==
    /\ q \in Nat \ {0} /\ Len(e) \in Nat /\ Len(s) = q + Len(e) /\ s[q + Len(e)] = NUL
    /\ \A k \in 1..Len(e) : e[k] \in 0..35 /\ s[q + k - 1] = CharOf(e[k])

DecimalEnd(s, p) == Loop(p, Len(s), LAMBDA k : Isdigit(s[k]))

\* A digit of a number in base b.
InBase(c, b) == c # NUL /\ DigitOf(c) \in 0..(b - 1)
DigitsEnd(s, p, b) == Loop(p, Len(s), LAMBDA k : s[k] # NUL /\ DigitOf(s[k]) \in 0..(b - 1))

\* What the readers make of the character c of the digit d.
CharIs(c, d) ==
    /\ d \in 0..35 /\ c \in 48..122 /\ DigitOf(c) = d
    /\ ~Isspace(c) /\ Tolower(c) = c
    /\ (d < 10 => Isdigit(c) /\ c - 48 = d)
    /\ (c = 48 <=> d = 0)
    /\ (d < 33 => c < 120)

\* From p on the text reads as v, in base b and to its end.
ReadsAs(s, p, b, v) ==
    /\ DigitsEnd(s, p, b) = Len(s)
    /\ Number(p, Len(s), b, [k \in p..(Len(s) - 1) |-> DigitOf(s[k])]) = v

\* e stands for the number v in base b.
Represents(e, b, v) ==
    /\ b \in 2..36 /\ v \in 0..(UintRange - 1)
    /\ \A k \in 1..Len(e) : e[k] < b
    /\ \E g : Horner(g, e, b, v)

\* A place of a text that holds neither a blank nor a sign.
StartsAt(s, q) ==
    /\ q \in Nat \ {0} /\ Len(s) \in Nat /\ q =< Len(s)
    /\ s[q] # Minus /\ s[q] # Plus /\ ~Isspace(s[q])

\* strtoul from such a place on.
Hex(s, q) == s[q] = 48 /\ Tolower(s[q + 1]) = 120
BaseOf(s, q, b0) == IF b0 # 0 THEN b0 ELSE IF Hex(s, q) THEN 16 ELSE IF s[q] = 48 THEN 8 ELSE 10
FirstOf(s, q, b0) == IF Hex(s, q) /\ b0 \in {0, 16} THEN q + 2
                     ELSE IF b0 = 0 /\ s[q] = 48 THEN q + 1 ELSE q

\* The characters of digits.
Chs(e) == [k \in 1..Len(e) |-> CharOf(e[k])]

\* The signs.
SignOf(neg) == IF neg THEN <<Minus>> ELSE <<>>

\* At p the text s has the sign, if there is one, and at q what follows it.
SignAt(s, p, q, neg) ==
    /\ AfterBlanks(s, 1) = p
    /\ IF neg THEN s[p] = Minus /\ q = p + 1 ELSE s[p] # Minus /\ s[p] # Plus /\ q = p

-----------------------------------------------------------------------------
(***************************************************************************)
(* The rounding functions, sin and pow, with Precision bits of mantissa.   *)
(***************************************************************************)
Top == Precision + Scales

\* A number of the format that the model's arguments reach.
Given(x) == x \in Int /\ Magnitude(x) =< TwoTo[Top - 1] /\ Rounded(x, 1) = x

Largest == TwoTo[Top - 1]

\* Around k the numbers are TwoTo[j] apart.
ScaleIs(k, j) ==
    /\ j \in 0..Scales /\ k < TwoTo[Precision + j]
    /\ j = 0 \/ k >= TwoTo[Precision + j - 1]

\* k is a number of the format: a multiple of its spacing.
Representable(k, j, q) == ScaleIs(k, j) /\ q \in Nat /\ k = q * TwoTo[j]

\* 1.0 and the distance of the numbers just below it.
UnitScale == CHOOSE u \in Precision..(Precision + Scales - 1) : Unit = TwoTo[u]
Ulp == TwoTo[UnitScale - Precision]
Half == TwoTo[UnitScale - 1]

\* The whole part of x is n.
Reaches(x, n) == x \in Nat /\ n \in Nat /\ n * Unit =< x /\ x < n * Unit + Unit

\* a lies r above its whole part c.
Parts(a, c, r) == a \in Nat /\ c \in Nat /\ r \in 0..(Unit - 1) /\ a = c * Unit + r
Above(c, r) == IF r = 0 THEN c ELSE c + 1

\* The rounding functions and sin are given numbers of the format; the angle of
\* sin stays in reach, the first loop leaves it at pi at most, and up to 3 pi it
\* is still the one given or has made its one turn.
SinInv ==
    /\ m_base \in {"none", "angle"} => Given(m_given)
    /\ m_base = "none" => math_pc = "done"
    /\ math_pc \in {"pow", "loop"} => m_base # "angle"
    /\ math_pc \in {"sin", "back"} =>
          /\ m_base = "angle" /\ m_x \in Int /\ Magnitude(m_x) =< Largest
          /\ Magnitude(m_given) =< 3 * Pi => m_x \in {m_given, OneTurn(m_given)}
    /\ math_pc = "back" => m_x =< Pi
    /\ ReducesRight

\* How often the base is to be multiplied, or divided by.
Times == IF m_given < 0 THEN -((-m_given) \div Unit) ELSE m_given \div Unit

\* What result and b still make of the base is what was asked for.
PowInv ==
    m_base \in {"two", "other"} /\ Whole(m_given) =>
        /\ m_given \in Int
        /\ math_pc = "pow" => m_x = m_given
        /\ math_pc = "loop" => /\ m_n \in Nat /\ m_b \in Int /\ m_power \in Int
                               /\ m_power + m_b * m_n = Times
        /\ math_pc = "done" => m_power = Times
        /\ math_pc \in {"pow", "loop", "done"}
=============================================================================
