------------------------------- MODULE Digits -------------------------------
(***************************************************************************)
(* Numbers as text: itoa, ltoa, utoa and ultoa of libc/src/stdlib.c, and   *)
(* the functions of the same kind in kernel/src/console.c, which leave the *)
(* sign to console_vprintf.  The loops produce the digits from the last to *)
(* the first and then turn them round in place.  atoi, atol, strtol and    *)
(* strtoul read the text again.                                            *)
(***************************************************************************)
EXTENDS StrSearch

CONSTANTS
    IntMax,         \* 2^31 - 1 in the code
    Bases

ASSUME DigitsAssumption == IntMax \in Nat /\ Bases \subseteq 2..36

IntMin == -IntMax - 1
UintRange == 2 * (IntMax + 1)       \* how many numbers an int can hold, 2^32
Numbers == IntMin..(UintRange - 1)  \* of an int or an unsigned int

VARIABLES
    value,          \* history: the number to be printed
    base,
    number,         \* what is left of it
    minus,          \* a minus sign was written
    digits,         \* the digits in str, as positions in the table of digits
    low, high,      \* the two ends of the reversal
    library,        \* "libc" or "console"
    dig_pc

digVars == <<value, base, number, minus, digits, low, high, library, dig_pc>>

\* Division in C rounds towards 0, and the remainder has the sign of the dividend.
Quotient(n, d) == IF n < 0 THEN -((-n) \div d) ELSE n \div d
Remainder(n, d) == n - Quotient(n, d) * d

\* console_vprintf, lines 131-134: - is an int too, so the smallest one stays.
Negated(n) == IF n = IntMin THEN n ELSE -n

\* Lines 194 and 211: itoa and ltoa write a sign in base 10 only.
WritesMinus == value < 0 /\ base = 10

\* Numbers above IntMax are those of the unsigned functions.  Of any other base
\* than 2 to 36 line 192 makes the empty string, before the loops.
\* console_vprintf asks for bases 10 and 16 and prints a sign with base 10 only;
\* of a pointer it passes what an unsigned int holds (line 166).
DigInit ==
    /\ value \in Numbers /\ library \in {"libc", "console"}
    /\ base \in Bases
    /\ library = "console" => base \in {10, 16} /\ (value < 0 => base = 10)
    /\ minus = WritesMinus
    /\ number = IF library = "console" /\ value < 0 THEN Negated(value) ELSE value
    /\ digits = <<>> /\ low = 0 /\ high = 0
    /\ dig_pc = "digits"

DigRest ==
    /\ value = 0 /\ library = "libc" /\ base = 10 /\ minus = FALSE /\ number = 0
    /\ digits = <<0>> /\ low = 0 /\ high = 0 /\ dig_pc = "done"

\* libc takes the digit without its sign, console as it is.
Digit == LET r == Remainder(number, base)
         IN  IF library = "libc" /\ r < 0 THEN -r ELSE r

\* Mutant of NextDigit: no digit is produced for 0.
NextDigitWhile ==
    /\ dig_pc = "digits"
    /\ digits' = IF number = 0 THEN digits ELSE Append(digits, Digit)
    /\ number' = Quotient(number, base)
    /\ IF number' # 0 THEN UNCHANGED <<low, high, dig_pc>>
       ELSE low' = 1 /\ high' = Len(digits') /\ dig_pc' = "reverse"
    /\ UNCHANGED <<value, base, minus, library>>

\* The do loop.
NextDigit ==
    /\ dig_pc = "digits"
    /\ digits' = Append(digits, Digit)
    /\ number' = Quotient(number, base)
    /\ IF number' # 0 THEN UNCHANGED <<low, high, dig_pc>>
       ELSE low' = 1 /\ high' = Len(digits') /\ dig_pc' = "reverse"
    /\ UNCHANGED <<value, base, minus, library>>

\* The second loop.
SwapEnds ==
    /\ dig_pc = "reverse" /\ low < high
    /\ digits' = [digits EXCEPT ![low] = digits[high], ![high] = digits[low]]
    /\ low' = low + 1 /\ high' = high - 1
    /\ UNCHANGED <<value, base, number, minus, library, dig_pc>>

DigEnd ==
    /\ dig_pc = "reverse" /\ low >= high
    /\ dig_pc' = "done"
    /\ UNCHANGED <<value, base, number, minus, digits, low, high, library>>

DigNext == NextDigit \/ SwapEnds \/ DigEnd

\* Arithmetic in int, which wraps round.
Wrap(n) == ((n - IntMin) % UintRange) + IntMin

\* The table of digits, and the text in str.
CharOf(d) == IF d < 10 THEN 48 + d ELSE 87 + d
Minus == 45
Plus == 43
Text == (IF minus THEN <<Minus>> ELSE <<>>)
        \o [k \in 1..Len(digits) |-> CharOf(digits[k])] \o <<NUL>>

\* The first place from p on that holds no blank, and the one behind a sign.
AfterBlanks(s, p) == Loop(p, Len(s), LAMBDA k : Isspace(s[k]))
AfterSign(s, p) == IF s[p] \in {Minus, Plus} THEN p + 1 ELSE p

\* The digits from p on, in unsigned arithmetic, which wraps round.
Number(p, stop, b, digitAt) ==
    LET upTo[k \in (p - 1)..(stop - 1)] ==
            IF k < p THEN 0 ELSE (upTo[k - 1] * b + digitAt[k]) % UintRange
    IN  upTo[stop - 1]

\* atoi and atol.
Atoi(s) ==
    LET p == AfterBlanks(s, 1)
        q == AfterSign(s, p)
        e == Loop(q, Len(s), LAMBDA k : Isdigit(s[k]))
        v == Number(q, e, 10, [k \in q..(e - 1) |-> s[k] - 48])
    IN  Wrap(IF s[p] = Minus THEN -v ELSE v)

\* Lines 262-263.
DigitOf(c) == IF Isdigit(c) THEN c - 48 ELSE IF Isalpha(c) THEN Tolower(c) - 97 + 10 ELSE -1

\* strtoul: the value and where it ends.  A sign is skipped and has no effect.
Strtoul(s, start, b0) ==
    LET q == AfterSign(s, AfterBlanks(s, start))
        hex == s[q] = 48 /\ Tolower(s[q + 1]) = 120     \* "0x"
        b == IF b0 # 0 THEN b0 ELSE IF hex THEN 16 ELSE IF s[q] = 48 THEN 8 ELSE 10
        p == IF hex /\ b0 \in {0, 16} THEN q + 2
             ELSE IF b0 = 0 /\ s[q] = 48 THEN q + 1 ELSE q
        e == Loop(p, Len(s), LAMBDA k : s[k] # NUL /\ DigitOf(s[k]) \in 0..(b - 1))
    IN  [value |-> Number(p, e, b, [k \in p..(e - 1) |-> DigitOf(s[k])]), endptr |-> e]

Strtol(s, b0) ==
    LET p == AfterBlanks(s, 1)
        r == Strtoul(s, AfterSign(s, p), b0)
    IN  [r EXCEPT !.value = Wrap(IF s[p] = Minus THEN -@ ELSE @)]

\* The number a text stands for.
Meaning ==
    LET upTo[n \in 0..Len(digits)] ==
            IF n = 0 THEN 0 ELSE upTo[n - 1] * base + digits[n]
    IN  IF minus THEN -upTo[Len(digits)] ELSE upTo[Len(digits)]

\* What the text says: in other bases than 10 itoa and ltoa drop the sign.
Shown == IF value < 0 /\ base # 10 THEN -value ELSE value

(***************************************************************************)
(* The text that is printed for a number reads as that number, or as its   *)
(* absolute value where itoa drops the sign, with every digit in the table *)
(* of digits.  Only console_vprintf, with the smallest int, which has no   *)
(* positive counterpart, looks outside it.  atoi, strtol and strtoul read  *)
(* every number back to the end of the text, large ones as the int of the  *)
(* same bits, also behind blanks and, in base 10 and behind "0x", when     *)
(* strtol is left to find the base.                                        *)
(***************************************************************************)
DigitsRight ==
    dig_pc = "done" =>
        \/ library = "console" /\ value = IntMin
        \/ /\ \A k \in 1..Len(digits) : digits[k] \in 0..(base - 1)
           /\ Len(digits) > 0
           /\ Meaning = Shown
           /\ Strtol(Text, base) = [value |-> Wrap(Shown), endptr |-> Len(Text)]
           /\ ~minus => Strtoul(Text, 1, base) = [value |-> Shown, endptr |-> Len(Text)]
           /\ base = 10 => /\ Atoi(Text) = Wrap(value)
                           /\ Strtol(<<32, 9>> \o Text, 0)
                                = [value |-> Wrap(value), endptr |-> Len(Text) + 2]
           /\ base = 16 => \A b0 \in {0, 16} : Strtol(<<48, 88>> \o Text, b0).value = Wrap(Shown)
=============================================================================
