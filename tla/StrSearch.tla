----------------------------- MODULE StrSearch -----------------------------
(***************************************************************************)
(* memcpy and memset, and the functions of libc/src/string.c that compare  *)
(* and search and change nothing.  A string is a sequence of characters    *)
(* that ends with its NUL, places count from 1 and 0 is the NULL pointer.  *)
(* Each function runs one or two loops over the characters; reading behind *)
(* the NUL is an error.                                                    *)
(***************************************************************************)
EXTENDS Ctype, Sequences

CONSTANTS
    Texts1, Texts2      \* the pairs of strings that are compared

VARIABLES
    s1, s2, limit       \* the arguments of a call

searchVars == <<s1, s2, limit>>

NUL == 0

\* A string: its last character is NUL, and no other.
IsText(s) == s \in Seq(Chars) /\ s # <<>> /\ \A i \in 1..Len(s) : s[i] = NUL <=> i = Len(s)
ASSUME SearchAssumption == \A s \in Texts1 \cup Texts2 : IsText(s)

\* memory b with the bytes t written from p on, as memcpy and memset do.
Put(b, p, t) ==
    [i \in 1..Len(b) |-> IF i \in p..(p + Len(t) - 1) THEN t[i - p + 1] ELSE b[i]]

\* Where a loop over the places from p on stops: the first that does not go on.
Loop(p, last, GoesOn(_)) ==
    CHOOSE q \in p..last : ~GoesOn(q) /\ \A r \in p..(q - 1) : GoesOn(r)

Strlen(s) == Loop(1, Len(s), LAMBDA k : s[k] # NUL) - 1

\* strnlen looks at the character behind the limit before it looks at the limit.
Strnlen(s, max) == Loop(1, Len(s), LAMBDA k : s[k] # NUL /\ k =< max) - 1

Strcmp(a, b) ==
    LET k == Loop(1, Len(a), LAMBDA i : a[i] # NUL /\ a[i] = b[i]) IN a[k] - b[k]

Strcasecmp(a, b) ==
    LET k == Loop(1, Len(a), LAMBDA i : a[i] # NUL /\ Tolower(a[i]) = Tolower(b[i]))
    IN  Tolower(a[k]) - Tolower(b[k])

\* Mutant of Strncmp: line 132 is missing.
StrncmpUnlimited(a, b, max) ==
    LET k == Loop(1, Len(a), LAMBDA i : i =< max /\ a[i] # NUL /\ a[i] = b[i])
    IN  a[k] - b[k]

Strncmp(a, b, max) ==
    LET k == Loop(1, Len(a), LAMBDA i : i =< max /\ a[i] # NUL /\ a[i] = b[i])
    IN  IF k > max THEN 0 ELSE a[k] - b[k]

Memcmp(a, b, max) ==
    LET k == Loop(1, max + 1, LAMBDA i : i =< max /\ a[i] = b[i])
    IN  IF k > max THEN 0 ELSE a[k] - b[k]

Memchr(s, c, max) ==
    LET k == Loop(1, max + 1, LAMBDA i : i =< max /\ s[i] # c)
    IN  IF k > max THEN 0 ELSE k

Strchr(s, c) ==
    LET k == Loop(1, Len(s), LAMBDA i : s[i] # NUL /\ s[i] # c)
    IN  IF s[k] = c THEN k ELSE 0

Strrchr(s, c) ==
    LET hits == {i \in 1..Strlen(s) : s[i] = c}
    IN  IF c = NUL THEN Strlen(s) + 1
        ELSE CHOOSE k \in hits \cup {0} : \A i \in hits : i =< k

Strstr(haystack, needle) ==
    LET stop(h) ==      \* lines 167-171: the place in needle where they part
            Loop(1, Len(needle), LAMBDA i :
                    haystack[h + i - 1] # NUL /\ needle[i] # NUL
                    /\ haystack[h + i - 1] = needle[i])
        p == Loop(1, Len(haystack), LAMBDA h : haystack[h] # NUL /\ needle[stop(h)] # NUL)
    IN  IF needle[1] = NUL THEN 1 ELSE IF haystack[p] = NUL THEN 0 ELSE p

\* strspn and strcspn, as places: the first from p on outside, or inside, a set.
Span(s, p, accept) == Loop(p, Len(s), LAMBDA i : s[i] # NUL /\ Strchr(accept, s[i]) # 0)
Cspan(s, p, reject) == Loop(p, Len(s), LAMBDA i : s[i] # NUL /\ Strchr(reject, s[i]) = 0)

Strpbrk(s, accept) ==
    LET k == Loop(1, Len(s), LAMBDA i : s[i] # NUL /\ Strchr(accept, s[i]) = 0)
    IN  IF s[k] = NUL THEN 0 ELSE k

Startswith(s, prefix) == Strncmp(s, prefix, Strlen(prefix)) = 0

Endswith(s, suffix) ==
    LET d == Strlen(s) - Strlen(suffix)
    IN  d >= 0 /\ Strcmp(SubSeq(s, d + 1, Len(s)), suffix) = 0

SearchInit == s1 \in Texts1 /\ s2 \in Texts2 /\ limit \in 0..Len(s1)
SearchRest == s1 = <<NUL>> /\ s2 = <<NUL>> /\ limit = 0

-----------------------------------------------------------------------------
Sign(d) == IF d < 0 THEN -1 ELSE IF d > 0 THEN 1 ELSE 0

\* The order of the dictionary, NUL included.
Before(a, b) == \E k \in 1..Len(a) : /\ k =< Len(b) /\ a[k] < b[k]
                                     /\ SubSeq(a, 1, k - 1) = SubSeq(b, 1, k - 1)
Order(a, b) == IF a = b THEN 0 ELSE IF Before(a, b) THEN -1 ELSE 1
Cut(s, max) == IF Len(s) > max THEN Append(SubSeq(s, 1, max), NUL) ELSE s
Lower(s) == [k \in 1..Len(s) |-> Tolower(s[k])]
Body(s) == SubSeq(s, 1, Len(s) - 1)
Least(S) == IF S = {} THEN 0 ELSE CHOOSE k \in S : \A i \in S : k =< i
Occurs(s, t) ==
    {p \in 1..(Len(s) - Len(t) + 1) : SubSeq(s, p, p + Len(t) - 1) = t}

(***************************************************************************)
(* The comparisons order strings like a dictionary of unsigned characters, *)
(* also when one is the beginning of the other, when the limit of strncmp  *)
(* falls on, before or behind the first difference, and without regard to  *)
(* case.  The searches find the first (strrchr the last) place there is    *)
(* and none other, at the very end of the string too.                      *)
(***************************************************************************)
SearchesRight ==
    /\ Sign(Strcmp(s1, s2)) = Order(s1, s2)
    /\ Sign(Strncmp(s1, s2, limit)) = Order(Cut(s1, limit), Cut(s2, limit))
    /\ Sign(Strcasecmp(s1, s2)) = Order(Lower(s1), Lower(s2))
    /\ limit =< Len(s2) =>
         Sign(Memcmp(s1, s2, limit)) = Order(SubSeq(s1, 1, limit), SubSeq(s2, 1, limit))
    /\ Strnlen(s1, limit) = IF limit < Len(s1) THEN limit ELSE Len(s1) - 1
    /\ Strstr(s1, s2) = Least(Occurs(s1, Body(s2)))
    /\ Startswith(s1, s2) <=> 1 \in Occurs(s1, Body(s2))
    /\ Endswith(s1, s2) <=> Len(s1) - Len(s2) + 1 \in Occurs(s1, s2)
    /\ LET c == s2[1]
           hits == {k \in 1..Len(s1) : s1[k] = c}
       IN  /\ Strchr(s1, c) = Least(hits)
           /\ \A k \in hits : k =< Strrchr(s1, c)
           /\ Strrchr(s1, c) \in hits \cup {0}
           /\ Memchr(s1, c, limit) = Least(hits \cap (1..limit))
           /\ Strpbrk(s1, s2) =
                Least({k \in 1..(Len(s1) - 1) : \E i \in 1..Len(s2) : s1[k] = s2[i]})
=============================================================================
