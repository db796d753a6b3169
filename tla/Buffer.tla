------------------------------- MODULE Buffer -------------------------------
(***************************************************************************)
(* The functions of libc/src/string.c that write strings, called one after *)
(* the other on one array.  strncpy and strncat write one NUL more than    *)
(* their contract says, so the model keeps the bytes behind the array.     *)
(* Callers pass the sizes that the code outside libc passes: the array     *)
(* is cleared before a strncpy with one less than its size (jarfs.c:276),  *)
(* and the unlimited functions get what fits.                              *)
(***************************************************************************)
EXTENDS StrSearch

CONSTANTS
    BufSize,        \* size of the array
    Pieces,         \* the strings, without their NUL
    MaxCalls        \* bound: calls made on the array

ASSUME BufAssumption == BufSize \in Nat \ {0} /\ Pieces \subseteq Seq(Chars \ {NUL})

VARIABLES
    bytes,          \* the array and two bytes behind it
    start,          \* the pointer strtrim returned, the array's start before
    made,           \* calls made so far
    buf_pc

bufVars == <<bytes, start, made, buf_pc>>

Guard == 255
Nuls(k) == [i \in 1..k |-> NUL]
Min2(a, b) == IF a < b THEN a ELSE b

BufInit ==
    /\ bytes = Nuls(BufSize) \o <<Guard, Guard>>
    /\ start = 1 /\ made = 0 /\ buf_pc = "run"

BufRest ==
    /\ bytes = Nuls(BufSize) \o <<Guard, Guard>>
    /\ start = 1 /\ made = 0 /\ buf_pc = "done"

-----------------------------------------------------------------------------
Strcpy(b, p, t) == Put(b, p, Append(t, NUL))

\* The first loop leaves n as it is when it copies the NUL: n + 1 bytes.
Strncpy(b, p, t, n) ==
    IF Len(t) < n THEN Put(b, p, t \o Nuls(n - Len(t) + 1))
                  ELSE Put(b, p, SubSeq(t, 1, n))

Strcat(b, t) == Strcpy(b, Strlen(b) + 1, t)

\* When the loop has copied the NUL, line 114 writes another one behind it.
Strncat(b, t, n) ==
    IF Len(t) < n THEN Put(b, Strlen(b) + 1, t \o Nuls(2))
                  ELSE Put(b, Strlen(b) + 1, Append(SubSeq(t, 1, n), NUL))

Strlcpy(b, p, t, size) ==
    IF size = 0 THEN b
    ELSE Put(b, p, Append(SubSeq(t, 1, Min2(Len(t), size - 1)), NUL))

\* Mutant of Strlcat: the size is not reduced by what the array holds.
StrlcatWhole(b, t, size) ==
    LET dlen == Strnlen(b, size)
    IN  IF dlen = size THEN b ELSE Strlcpy(b, dlen + 1, t, size)

Strlcat(b, t, size) ==
    LET dlen == Strnlen(b, size)
    IN  IF dlen = size THEN b ELSE Strlcpy(b, dlen + 1, t, size - dlen)

Strltrim(b, p) == Loop(p, Len(b), LAMBDA k : b[k] # NUL /\ Isspace(b[k]))

\* The loop of line 310 never looks at the first character.
Strrtrim(b, p) ==
    LET nul == Loop(p, Len(b), LAMBDA k : b[k] # NUL)
        end == CHOOSE k \in p..(nul - 1) :
                    /\ k = p \/ ~Isspace(b[k])
                    /\ \A i \in (k + 1)..(nul - 1) : Isspace(b[i])
    IN  IF nul = p THEN b ELSE [b EXCEPT ![end + 1] = NUL]

-----------------------------------------------------------------------------
Held == Strlen(bytes)

\* One call; the program goes on with the array, or with what strtrim returned.
Made == buf_pc = "run" /\ made < MaxCalls /\ made' = made + 1 /\ UNCHANGED buf_pc

CopyIn(t) ==
    /\ Made
    /\ \/ Len(t) < BufSize /\ bytes' = Strcpy(bytes, 1, t)
       \/ bytes' = Strncpy(Put(bytes, 1, Nuls(BufSize)), 1, t, BufSize - 1)
       \/ bytes' = Strlcpy(bytes, 1, t, BufSize)
    /\ start' = 1

AppendTo(t) ==
    /\ Made /\ start = 1
    /\ \/ Held + Len(t) < BufSize /\ bytes' = Strcat(bytes, t)
       \/ bytes' = Strncat(bytes, t, BufSize - Held - 1)
       \/ bytes' = Strlcat(bytes, t, BufSize)
    /\ UNCHANGED start

TrimIt ==
    /\ Made
    /\ \/ bytes' = Strrtrim(bytes, start) /\ UNCHANGED start
       \/ start' = Strltrim(bytes, start) /\ bytes' = Strrtrim(bytes, start')

BufEnd ==
    /\ buf_pc = "run" /\ made = MaxCalls
    /\ buf_pc' = "done"
    /\ UNCHANGED <<bytes, start, made>>

BufNext == (\E t \in Pieces : CopyIn(t) \/ AppendTo(t)) \/ TrimIt \/ BufEnd

-----------------------------------------------------------------------------
\* The string a reader finds from p on; none if a byte behind the array has changed.
StringAt(b, p) ==
    IF /\ b[BufSize + 1] = Guard /\ b[BufSize + 2] = Guard
       /\ \E k \in p..BufSize : b[k] = NUL
    THEN SubSeq(b, p, Loop(p, BufSize, LAMBDA k : b[k] # NUL) - 1)
    ELSE <<Guard>>
heldString == StringAt(bytes, start)

(***************************************************************************)
(* Every sequence of calls leaves in the array the string it should hold,  *)
(* cut off where the array ends, with its NUL inside and no byte behind it *)
(* touched, whatever earlier calls left behind the NUL.                    *)
(***************************************************************************)
Expected == INSTANCE StringBuffer WITH str <- heldString
BufferImplements == Expected!BSpec
=============================================================================
